---------------------------- MODULE Spec2Model ----------------------------
(***************************************************************************)
(* A model of the storage_engine repository: the B-Tree memtable and its   *)
(* write-ahead log, the SSTable segment files with their sparse index and  *)
(* bloom filter sidecars, the min-heap driven compaction, the LSM engine    *)
(* that orchestrates them, and the DB wrapper.                              *)
(*                                                                         *)
(* Strings are sequences of character codes (ASCII), compared              *)
(* lexicographically as Python compares str.  Python's None is the value   *)
(* None below, which is no string.                                         *)
(***************************************************************************)
EXTENDS Integers, Sequences, FiniteSets, TLC

\* ------------------------------------------------------------------------
\* Bounds of the model
\* ------------------------------------------------------------------------

\* the engine is driven with at most MaxOps writes (records in the WAL)
MaxOps == 2

\* no flush or compaction is started once segment_counter reached MaxCounter
MaxCounter == 3

\* the LSMTree under test is constructed with a memtable_threshold of 1..MaxThreshold
MaxThreshold == 2

\* largest max_distance fuzzy_get is called with
MaxDistance == 1

\* ------------------------------------------------------------------------
\* Strings
\* ------------------------------------------------------------------------

None == <<-1>>

\* "__TOMBSTONE__"
TOMBSTONE == <<95, 95, 84, 79, 77, 66, 83, 84, 79, 78, 69, 95, 95>>

SPARSE_INDEX_STRIDE == 10

\* keys "a", "ab"
Keys == {<<97>>, <<97, 98>>}

\* live values "A" (sorts before the tombstone) and "a" (sorts after it)
Values == {<<65>>, <<97>>}

\* search keys of fuzzy_get: "", "a", "ab", "abb"
SearchKeys == Keys \cup {<<>>, <<97, 98, 98>>}

Min2(a, b) == IF a < b THEN a ELSE b

\* Python's str.__lt__: lexicographic on code points, a proper prefix is smaller
RECURSIVE StrLess(_, _)
StrLess(a, b) ==
    IF b = <<>> THEN FALSE
    ELSE IF a = <<>> THEN TRUE
    ELSE IF Head(a) # Head(b) THEN Head(a) < Head(b)
    ELSE StrLess(Tail(a), Tail(b))

InsertAt(s, i, e) == SubSeq(s, 1, i - 1) \o <<e>> \o SubSeq(s, i, Len(s))

ReplaceAt(s, i, e) == [s EXCEPT ![i] = e]

\* ------------------------------------------------------------------------
\* B-Tree (btree.py)
\* ------------------------------------------------------------------------

BTreeNode(leaf) == [leaf |-> leaf, keys |-> <<>>, values |-> <<>>, child |-> <<>>]

\* "i = 0; while i < len(x.keys) and k > x.keys[i]: i += 1", as a 1-based index
ScanUp(keys, k) ==
    CHOOSE i \in 1..(Len(keys) + 1) :
        /\ \A j \in 1..(i - 1) : StrLess(keys[j], k)
        /\ (i = Len(keys) + 1 \/ ~StrLess(keys[i], k))

\* "i = len(x.keys) - 1; while i >= 0 and k < x.keys[i]: i -= 1", as the
\* number of keys left of the stopping point
ScanDown(keys, k) ==
    CHOOSE i \in 0..Len(keys) :
        /\ \A j \in (i + 1)..Len(keys) : StrLess(k, keys[j])
        /\ (i = 0 \/ ~StrLess(k, keys[i]))

\* search that never descends below the node it is given
search_root(x, k) ==
    LET i == ScanUp(x.keys, k) IN
    IF i <= Len(x.keys) /\ k = x.keys[i] THEN x.values[i] ELSE None

RECURSIVE search(_, _)
search(x, k) ==
    LET i == ScanUp(x.keys, k) IN
    IF i <= Len(x.keys) /\ k = x.keys[i] THEN x.values[i]
    ELSE IF x.leaf THEN None
    ELSE search(x.child[i], k)

\* _update with the assignment "x.values[i] = v" lost
_update_lost(x, k, v) == x

RECURSIVE _update(_, _, _)
_update(x, k, v) ==
    LET i == ScanUp(x.keys, k) IN
    IF i <= Len(x.keys) /\ k = x.keys[i] THEN [x EXCEPT !.values[i] = v]
    ELSE IF x.leaf THEN x
    ELSE [x EXCEPT !.child[i] = _update(x.child[i], k, v)]

split_child(x, i, t) ==
    LET y == x.child[i]
        z == [leaf   |-> y.leaf,
              keys   |-> SubSeq(y.keys, t + 1, 2 * t - 1),
              values |-> SubSeq(y.values, t + 1, 2 * t - 1),
              child  |-> IF y.leaf THEN <<>> ELSE SubSeq(y.child, t + 1, 2 * t)]
        y2 == [leaf   |-> y.leaf,
               keys   |-> SubSeq(y.keys, 1, t - 1),
               values |-> SubSeq(y.values, 1, t - 1),
               child  |-> IF y.leaf THEN <<>> ELSE SubSeq(y.child, 1, t)]
    IN [leaf   |-> x.leaf,
        keys   |-> InsertAt(x.keys, i, y.keys[t]),
        values |-> InsertAt(x.values, i, y.values[t]),
        child  |-> InsertAt(ReplaceAt(x.child, i, y2), i + 1, z)]

RECURSIVE insert_non_full(_, _, _, _)
insert_non_full(x, k, v, t) ==
    LET i == ScanDown(x.keys, k) IN
    IF x.leaf
    THEN [x EXCEPT !.keys = InsertAt(x.keys, i + 1, k),
                   !.values = InsertAt(x.values, i + 1, v)]
    ELSE LET full == Len(x.child[i + 1].keys) = 2 * t - 1
             x2 == IF full THEN split_child(x, i + 1, t) ELSE x
             c == IF full /\ StrLess(x2.keys[i + 1], k) THEN i + 2 ELSE i + 1
         IN [x2 EXCEPT !.child[c] = insert_non_full(x2.child[c], k, v, t)]

\* BTree.insert without the branch for a key that exists
insert_blind(root, k, v, t) ==
    IF Len(root.keys) = 2 * t - 1
    THEN insert_non_full(split_child([BTreeNode(FALSE) EXCEPT !.child = <<root>>], 1, t),
                         k, v, t)
    ELSE insert_non_full(root, k, v, t)

\* BTree.insert that does not split a full root
insert_nosplit(root, k, v, t) ==
    IF search(root, k) # None THEN _update(root, k, v)
    ELSE insert_non_full(root, k, v, t)

\* BTree.insert without its WAL write: the tree after insert(k, v, wal=False)
insert(root, k, v, t) ==
    IF search(root, k) # None THEN _update(root, k, v)
    ELSE IF Len(root.keys) = 2 * t - 1
    THEN LET temp == [BTreeNode(FALSE) EXCEPT !.child = <<root>>]
         IN insert_non_full(split_child(temp, 1, t), k, v, t)
    ELSE insert_non_full(root, k, v, t)

\* BTree.delete that inserts nothing
BTreeDelete_noop(root, k, t) == root

\* BTree.delete without its WAL write: the tree after insert(k, TOMBSTONE, wal=False)
BTreeDelete(root, k, t) == insert(root, k, TOMBSTONE, t)

RECURSIVE _items(_)
RECURSIVE _itemsFrom(_, _)
RECURSIVE _itemsFrom_pre(_, _)
\* the loop of _items appending the node's pair before the child's items
_itemsFrom_pre(x, i) ==
    IF i > Len(x.keys) THEN _items(x.child[Len(x.keys) + 1])
    ELSE <<<<x.keys[i], x.values[i]>>>> \o _items(x.child[i]) \o _itemsFrom_pre(x, i + 1)

\* the loop "for i in range(len(x.keys))" of _items from index i on, then the last child
_itemsFrom(x, i) ==
    IF i > Len(x.keys) THEN _items(x.child[Len(x.keys) + 1])
    ELSE _items(x.child[i]) \o <<<<x.keys[i], x.values[i]>>>> \o _itemsFrom(x, i + 1)

_items(x) ==
    IF x.leaf THEN [i \in 1..Len(x.keys) |-> <<x.keys[i], x.values[i]>>]
    ELSE _itemsFrom(x, 1)

items(root) == _items(root)

\* ------------------------------------------------------------------------
\* Write-ahead log (wal.py)
\* ------------------------------------------------------------------------

\* WriteAheadLog.write whose entry does not reach the file
WalWrite_dropped(log, operation, key, value) == log

\* WriteAheadLog.write: the log file after appending one entry
WalWrite(log, operation, key, value) ==
    Append(log, [op |-> operation, key |-> key, value |-> value])

\* WriteAheadLog.recover that matches no entry's op and replays nothing
recover_none(log, root, t) == root

\* WriteAheadLog.recover: replay of the log into the tree, oldest entry first
RECURSIVE recover(_, _, _)
recover(log, root, t) ==
    IF log = <<>> THEN root
    ELSE recover(Tail(log),
                 IF Head(log).op = "insert"
                 THEN insert(root, Head(log).key, Head(log).value, t)
                 ELSE root,
                 t)

\* BTree.__init__: an empty leaf root, then recovery from the log at wal_path
\* BTree.__init__ that skips wal.recover
BTreeInit_empty(t, log) == BTreeNode(TRUE)

BTreeInit(t, log) == recover(log, BTreeNode(TRUE), t)

\* BTree.insert that writes the log whatever its wal argument is
InsertLog_always(log, k, v, wal) == WalWrite(log, "insert", k, v)

\* BTree.insert, its first statement: the log file after `if wal: self.wal.write`
InsertLog(log, k, v, wal) ==
    IF wal THEN WalWrite(log, "insert", k, v) ELSE log

\* BTree.insert: the log file and the tree after the WAL write, then after
\* the change of the tree
InsertSteps(log, root, k, v, t, wal) ==
    <<[log |-> InsertLog(log, k, v, wal), root |-> root],
      [log |-> InsertLog(log, k, v, wal), root |-> insert(root, k, v, t)]>>

\* WriteAheadLog.recover: the log file after the replay of the entries read
\* from it, each through btree.insert(key, value, wal=False)
RECURSIVE recover_log(_, _)
recover_log(entries, file) ==
    IF entries = <<>> THEN file
    ELSE recover_log(Tail(entries),
                     IF Head(entries).op = "insert"
                     THEN InsertLog(file, Head(entries).key, Head(entries).value, FALSE)
                     ELSE file)

\* ------------------------------------------------------------------------
\* Bloom filter (bloom_filter.py)
\* ------------------------------------------------------------------------

\* Stand-in for int(hashlib.md5(s).hexdigest(), 16): a polynomial digest of
\* the string's character codes.  Like MD5 it is a fixed function of the
\* string, and distinct strings may collide modulo the filter size.
RECURSIVE Digest(_, _)
Digest(s, acc) ==
    IF s = <<>> THEN acc ELSE Digest(Tail(s), (acc * 31 + Head(s)) % 65521)

\* str(i) for a one-digit i
StrOfDigit(i) == <<48 + i>>

\* BloomFilter._hashes: hash i of item is the digest of item + str(i) modulo size
_hashes(item, size, hash_count) ==
    [j \in 1..hash_count |-> Digest(item \o StrOfDigit(j - 1), 7) % size]

\* BloomFilter.__init__; bit_array is held as the set of indices whose bit is 1
BloomFilter(size, hash_count) ==
    [size |-> size, hash_count |-> hash_count, bit_array |-> {}]

\* add that sets the bit of the first hash only
add_first(b, item) ==
    [b EXCEPT !.bit_array =
        @ \cup {_hashes(item, b.size, b.hash_count)[j] : j \in 1..Min2(1, b.hash_count)}]

\* BloomFilter.add
add(b, item) ==
    [b EXCEPT !.bit_array =
        @ \cup {_hashes(item, b.size, b.hash_count)[j] : j \in 1..b.hash_count}]

\* BloomFilter.__contains__
contains(b, item) ==
    \A j \in 1..b.hash_count : _hashes(item, b.size, b.hash_count)[j] \in b.bit_array

\* the value of SSTable.bloom_filter when there is no .bf file (Python's None)
NoBloomFilter == [size |-> 0, hash_count |-> 0, bit_array |-> {}]

RECURSIVE AddAll(_, _)
\* "for key in ...: bloom_filter.add(str(key))"
AddAll(b, ks) == IF ks = <<>> THEN b ELSE AddAll(add(b, Head(ks)), Tail(ks))

Max2(a, b) == IF a > b THEN a ELSE b

\* ------------------------------------------------------------------------
\* SSTable (sstable.py)
\*
\* The engine directory is a record of three maps from a file's base name
\* to its content: sst (the lines of N.sst, each a <<key, value>> record),
\* index (the sparse index of N.index) and bf (the filter of N.bf).  Base
\* names are the segment numbers; TempName is temp_compacted_<time>.
\* ------------------------------------------------------------------------

TempName == -1

EmptyDir == [sst |-> <<>>, index |-> <<>>, bf |-> <<>>]

\* a map with one more (or one replaced) entry
Store(f, name, content) ==
    [n \in (DOMAIN f) \cup {name} |-> IF n = name THEN content ELSE f[n]]

\* os.remove of an existing file
Remove(f, name) == [n \in (DOMAIN f) \ {name} |-> f[n]]

\* len((json.dumps({key: value}) + '\n').encode('utf-8')) for ASCII strings:
\* {"key": "value"}\n
LineLen(rec) == Len(rec[1]) + Len(rec[2]) + 9

\* the (key, value) pairs of a dict, sorted: sorted(memtable.items())
RECURSIVE SortedItems(_)
SortedItems(d) ==
    IF DOMAIN d = {} THEN <<>>
    ELSE LET k == CHOOSE x \in DOMAIN d : \A y \in DOMAIN d : ~StrLess(y, x)
         IN <<<<k, d[k]>>>> \o SortedItems([x \in (DOMAIN d) \ {k} |-> d[x]])

\* dict(pairs): a later pair of the same key replaces an earlier one
RECURSIVE dict(_)
dict(pairs) ==
    IF pairs = <<>> THEN <<>>
    ELSE LET p == pairs[Len(pairs)]
             d == dict(SubSeq(pairs, 1, Len(pairs) - 1))
         IN [k \in (DOMAIN d) \cup {p[1]} |-> IF k = p[1] THEN p[2] ELSE d[k]]

\* a sparse index whose offsets count records, not bytes
RECURSIVE StrideIndex_records(_, _, _)
StrideIndex_records(lines, i, off) ==
    IF lines = <<>> THEN <<>>
    ELSE (IF i % SPARSE_INDEX_STRIDE = 0 THEN <<<<Head(lines)[1], off>>>> ELSE <<>>)
         \o StrideIndex_records(Tail(lines), i + 1, off + 1)

\* the sparse index of the lines written from position i (0-based) and byte
\* offset off on: every SPARSE_INDEX_STRIDE-th key with its offset
RECURSIVE StrideIndex(_, _, _)
StrideIndex(lines, i, off) ==
    IF lines = <<>> THEN <<>>
    ELSE (IF i % SPARSE_INDEX_STRIDE = 0 THEN <<<<Head(lines)[1], off>>>> ELSE <<>>)
         \o StrideIndex(Tail(lines), i + 1, off + LineLen(Head(lines)))

\* SSTable._load_bloom_filter
_load_bloom_filter(dir, filename) ==
    IF filename \in DOMAIN dir.bf THEN dir.bf[filename] ELSE NoBloomFilter

\* SSTable._build_sparse_index: one pass over the .sst file
_build_sparse_index(dir, filename) == StrideIndex(dir.sst[filename], 0, 0)

\* SSTable.__init__: the object it constructs
SSTable(dir, filename) ==
    [filename     |-> filename,
     bloom_filter |-> _load_bloom_filter(dir, filename),
     sparse_index |-> IF filename \in DOMAIN dir.index THEN dir.index[filename]
                      ELSE IF filename \in DOMAIN dir.sst
                      THEN _build_sparse_index(dir, filename)
                      ELSE <<>>]

\* SSTable.__init__: the directory afterwards (a rebuilt index is saved)
SSTableDir(dir, filename) ==
    IF filename \notin DOMAIN dir.index /\ filename \in DOMAIN dir.sst
    THEN [dir EXCEPT !.index = Store(@, filename, _build_sparse_index(dir, filename))]
    ELSE dir

\* SSTable.write_from_memtable: the directory after writing the dict memtable
write_from_memtable(dir, filename, memtable, append) ==
    LET sorted_items == SortedItems(memtable)
        bloom_filter == AddAll(BloomFilter(Max2(100, Cardinality(DOMAIN memtable) * 10), 5),
                               [i \in 1..Len(sorted_items) |-> sorted_items[i][1]])
        old == IF append /\ filename \in DOMAIN dir.sst THEN dir.sst[filename] ELSE <<>>
    IN [sst   |-> Store(dir.sst, filename, old \o sorted_items),
        index |-> Store(dir.index, filename, StrideIndex(sorted_items, 0, 0)),
        bf    |-> Store(dir.bf, filename, bloom_filter)]

\* SSTable.read_iter: the records the iterator yields, in file order
read_iter(dir, filename) ==
    IF filename \in DOMAIN dir.sst THEN dir.sst[filename] ELSE <<>>

\* a bisection that always answers the first block
bisect_right_first(keys, key, lo, hi) == 1

\* bisect.bisect_right(keys, key) with lo, hi as in the library's loop
RECURSIVE bisect_right(_, _, _, _)
bisect_right(keys, key, lo, hi) ==
    IF lo >= hi THEN lo
    ELSE LET mid == (lo + hi) \div 2
         IN IF StrLess(key, keys[mid + 1])
            THEN bisect_right(keys, key, lo, mid)
            ELSE bisect_right(keys, key, mid + 1, hi)

\* byte offset at which line i (1-based) of the file begins
RECURSIVE OffsetOf(_, _)
OffsetOf(lines, i) == IF i <= 1 THEN 0 ELSE OffsetOf(lines, i - 1) + LineLen(lines[i - 1])

\* json.loads fails on a line that does not begin at a record boundary
DecodeError == <<-2>>

\* the scan loop of SSTable.get from byte position pos; idx is the 0-based
\* index of the block's entry in the sparse index (-1 when there is none)
RECURSIVE ScanBlock(_, _, _, _, _)
ScanBlock(lines, sparse_index, idx, key, pos) ==
    IF pos >= OffsetOf(lines, Len(lines) + 1) THEN None
    ELSE IF ~\E i \in 1..Len(lines) : OffsetOf(lines, i) = pos THEN DecodeError
    ELSE LET i == CHOOSE j \in 1..Len(lines) : OffsetOf(lines, j) = pos
             current_pos == pos + LineLen(lines[i])
             record_key == lines[i][1]
         IN IF record_key = key
            THEN (IF lines[i][2] = TOMBSTONE THEN None ELSE lines[i][2])
            ELSE IF StrLess(key, record_key) THEN None
            ELSE IF idx + 1 < Len(sparse_index) /\ current_pos >= sparse_index[idx + 2][2]
            THEN None
            ELSE ScanBlock(lines, sparse_index, idx, key, current_pos)

\* SSTable.get
SSTableGet(dir, seg, key) ==
    IF seg.bloom_filter # NoBloomFilter /\ ~contains(seg.bloom_filter, key) THEN None
    ELSE IF seg.sparse_index = <<>> THEN None
    ELSE LET keys == [i \in 1..Len(seg.sparse_index) |-> seg.sparse_index[i][1]]
             idx == bisect_right(keys, key, 0, Len(keys)) - 1
             start_offset == IF idx >= 0 THEN seg.sparse_index[idx + 1][2] ELSE 0
         IN ScanBlock(dir.sst[seg.filename], seg.sparse_index, idx, key, start_offset)

\* ------------------------------------------------------------------------
\* Min-heap (heap.py); the list is 1-based here, so the parent of index i
\* is i \div 2 and its children are 2i and 2i + 1
\* ------------------------------------------------------------------------

\* Python's tuple "<" on the merge tuples (key, value, segment index,
\* iterator): the first differing field decides.  The iterator field is
\* held as the position of the iterator in its segment; generators do not
\* compare, so two tuples equal on the first three fields are not ordered.
ItemLess(a, b) ==
    IF a[1] # b[1] THEN StrLess(a[1], b[1])
    ELSE IF a[2] # b[2] THEN StrLess(a[2], b[2])
    ELSE IF a[3] # b[3] THEN a[3] < b[3]
    ELSE FALSE

Swap(heap, i, j) == [heap EXCEPT ![i] = heap[j], ![j] = heap[i]]

RECURSIVE _heapify_up(_, _)
_heapify_up(heap, index) ==
    LET parent_index == index \div 2 IN
    IF index > 1 /\ ItemLess(heap[index], heap[parent_index])
    THEN _heapify_up(Swap(heap, index, parent_index), parent_index)
    ELSE heap

\* _heapify_down that never looks at the right child
RECURSIVE _heapify_down_left(_, _)
_heapify_down_left(heap, index) ==
    LET left_child_index == 2 * index
        smallest == IF left_child_index <= Len(heap) /\ ItemLess(heap[left_child_index], heap[index])
                    THEN left_child_index ELSE index
    IN IF smallest # index
       THEN _heapify_down_left(Swap(heap, index, smallest), smallest)
       ELSE heap

RECURSIVE _heapify_down(_, _)
_heapify_down(heap, index) ==
    LET left_child_index == 2 * index
        right_child_index == 2 * index + 1
        s1 == IF left_child_index <= Len(heap) /\ ItemLess(heap[left_child_index], heap[index])
              THEN left_child_index ELSE index
        smallest == IF right_child_index <= Len(heap) /\ ItemLess(heap[right_child_index], heap[s1])
                    THEN right_child_index ELSE s1
    IN IF smallest # index
       THEN _heapify_down(Swap(heap, index, smallest), smallest)
       ELSE heap

heappush(heap, item) == _heapify_up(Append(heap, item), Len(heap) + 1)

\* MinHeap.heappop: the exception raised ("none" when it returns), the item
\* returned and the heap left
heappop(heap) ==
    IF heap = <<>> THEN [raised |-> "IndexError", item |-> None, heap |-> heap]
    ELSE IF Len(heap) = 1 THEN [raised |-> "none", item |-> heap[1], heap |-> <<>>]
    ELSE [raised |-> "none", item |-> heap[1],
          heap |-> _heapify_down(<<heap[Len(heap)]>> \o SubSeq(heap, 2, Len(heap) - 1), 1)]

\* ------------------------------------------------------------------------
\* Levenshtein distance (levensthein.py)
\* ------------------------------------------------------------------------

Min3(a, b, c) == Min2(a, Min2(b, c))

\* the inner loop charging a substitution for equal characters too
RECURSIVE LevRow_charged(_, _, _, _, _)
LevRow_charged(previous_row, current_row, c1, s2, j) ==
    IF j > Len(s2) THEN current_row
    ELSE LevRow_charged(previous_row,
                        Append(current_row, Min3(previous_row[j + 1] + 1, current_row[j] + 1,
                                                 previous_row[j] + 1)),
                        c1, s2, j + 1)

\* the inner loop "for j, c2 in enumerate(s2)" from the j-th character on
RECURSIVE LevRow(_, _, _, _, _)
LevRow(previous_row, current_row, c1, s2, j) ==
    IF j > Len(s2) THEN current_row
    ELSE LET insertions == previous_row[j + 1] + 1
             deletions == current_row[j] + 1
             substitutions == previous_row[j] + (IF c1 # s2[j] THEN 1 ELSE 0)
         IN LevRow(previous_row,
                   Append(current_row, Min3(insertions, deletions, substitutions)),
                   c1, s2, j + 1)

\* the outer loop "for i, c1 in enumerate(s1)" from the i-th character on
RECURSIVE LevRows(_, _, _, _)
LevRows(previous_row, s1, s2, i) ==
    IF i > Len(s1) THEN previous_row
    ELSE LevRows(LevRow(previous_row, <<i>>, s1[i], s2, 1), s1, s2, i + 1)

\* Levenshtein.distance
distance(s1, s2) ==
    LET a == IF Len(s1) < Len(s2) THEN s2 ELSE s1
        b == IF Len(s1) < Len(s2) THEN s1 ELSE s2
        last_row == LevRows([j \in 1..(Len(b) + 1) |-> j - 1], a, b, 1)
    IN last_row[Len(last_row)]

\* ------------------------------------------------------------------------
\* LSM engine (lsmtree.py).  An engine is the record of the fields of an
\* LSMTree object (memtable is the root of its B-Tree of degree MemtableT)
\* together with dir and wal, the files of its directory.
\* ------------------------------------------------------------------------

\* "BTree(t=5, ...)" in LSMTree.__init__, _flush_memtable and DB.__init__
MemtableT == 5

\* width of the segment names: f"{self.segment_counter:05d}.sst"
PadWidth == 5

\* the decimal digits of n
RECURSIVE Digits(_)
Digits(n) == IF n < 10 THEN <<48 + n>> ELSE Append(Digits(n \div 10), 48 + (n % 10))

\* f"{n:05d}": zero-padded to PadWidth, longer when n has more digits
Format05d(n) ==
    IF Len(Digits(n)) >= PadWidth THEN Digits(n)
    ELSE [i \in 1..(PadWidth - Len(Digits(n))) |-> 48] \o Digits(n)

\* order of the file names under sorted(), which compares them as strings:
\* digits sort before "temp_..."
NameLess(a, b) ==
    IF a = TempName THEN FALSE ELSE IF b = TempName THEN TRUE
    ELSE StrLess(Format05d(a), Format05d(b))

RECURSIVE SortedNames(_)
SortedNames(S) ==
    IF S = {} THEN <<>>
    ELSE LET n == CHOOSE x \in S : \A y \in S : ~NameLess(y, x)
         IN <<n>> \o SortedNames(S \ {n})

\* the loop of _load_segments over the sorted file names: each SSTable is
\* constructed in turn, which may save a rebuilt index
RECURSIVE LoadFiles(_, _, _)
LoadFiles(files, dir, segments) ==
    IF files = <<>> THEN [dir |-> dir, segments |-> segments]
    ELSE LoadFiles(Tail(files), SSTableDir(dir, Head(files)),
                   Append(segments, SSTable(dir, Head(files))))

\* LSMTree.__init__ with _load_segments: the engine constructed on a
\* directory, or failed = TRUE when the constructor raises, which it does
\* when int(last_segment_filename.split('.')[0]) is given "temp_compacted_..."
LSMTreeInit(dir, wal, memtable_threshold) ==
    LET loaded == LoadFiles(SortedNames(DOMAIN dir.sst), dir, <<>>)
        n == Len(loaded.segments)
        failed == n > 0 /\ loaded.segments[n].filename = TempName
    IN [memtable           |-> BTreeInit(MemtableT, wal),
        memtable_threshold |-> memtable_threshold,
        segments           |-> loaded.segments,
        segment_counter    |-> IF n > 0 /\ ~failed
                               THEN loaded.segments[n].filename + 1 ELSE 0,
        dir                |-> loaded.dir,
        wal                |-> wal,
        failed             |-> failed]

\* a flush without the test for an empty memtable
_flush_memtable_always(e) ==
    [e EXCEPT !.dir = SSTableDir(write_from_memtable(e.dir, e.segment_counter,
                                                     dict(items(e.memtable)), FALSE),
                                 e.segment_counter),
              !.segments = Append(e.segments,
                                  SSTable(write_from_memtable(e.dir, e.segment_counter,
                                                              dict(items(e.memtable)), FALSE),
                                          e.segment_counter)),
              !.segment_counter = e.segment_counter + 1,
              !.memtable = BTreeInit(MemtableT, e.wal)]

\* a flush that writes the live records only
_flush_memtable_live(e) ==
    IF items(e.memtable) = <<>> THEN e
    ELSE LET segment_filename == e.segment_counter
             dir2 == write_from_memtable(e.dir, segment_filename,
                         dict(SelectSeq(items(e.memtable), LAMBDA p : p[2] # TOMBSTONE)),
                         FALSE)
         IN [e EXCEPT !.dir = SSTableDir(dir2, segment_filename),
                      !.segments = Append(e.segments, SSTable(dir2, segment_filename)),
                      !.segment_counter = e.segment_counter + 1,
                      !.memtable = BTreeInit(MemtableT, e.wal)]

\* LSMTree._flush_memtable
_flush_memtable(e) ==
    IF items(e.memtable) = <<>> THEN e
    ELSE LET segment_filename == e.segment_counter
             dir2 == write_from_memtable(e.dir, segment_filename,
                                         dict(items(e.memtable)), FALSE)
         IN [e EXCEPT !.dir = SSTableDir(dir2, segment_filename),
                      !.segments = Append(e.segments, SSTable(dir2, segment_filename)),
                      !.segment_counter = e.segment_counter + 1,
                      !.memtable = BTreeInit(MemtableT, e.wal)]

\* LSMTree.put flushing only once the count has passed the threshold
put_above(e, key, value) ==
    LET e2 == [e EXCEPT !.wal = WalWrite(e.wal, "insert", key, value),
                        !.memtable = insert(e.memtable, key, value, MemtableT)]
    IN IF Len(items(e2.memtable)) > e2.memtable_threshold
       THEN _flush_memtable(e2) ELSE e2

\* LSMTree.put: BTree.insert logs to the WAL, then inserts; then the flush test
put(e, key, value) ==
    LET e2 == [e EXCEPT !.wal = WalWrite(e.wal, "insert", key, value),
                        !.memtable = insert(e.memtable, key, value, MemtableT)]
    IN IF Len(items(e2.memtable)) >= e2.memtable_threshold
       THEN _flush_memtable(e2) ELSE e2

\* LSMTree.delete
delete(e, key) == put(e, key, TOMBSTONE)

\* LSMTree.close
close(e) == _flush_memtable(e)

\* the walk of LSMTree.get over reversed(self.segments), from segment i down
RECURSIVE GetFromSegments(_, _, _)
GetFromSegments(e, key, i) ==
    IF i = 0 THEN None
    ELSE LET segment == e.segments[i] IN
         IF segment.bloom_filter # NoBloomFilter /\ ~contains(segment.bloom_filter, key)
         THEN GetFromSegments(e, key, i - 1)
         ELSE LET value == SSTableGet(e.dir, segment, key)
              IN IF value # None
                 THEN (IF value = TOMBSTONE THEN None ELSE value)
                 ELSE GetFromSegments(e, key, i - 1)

\* LSMTree.get returning the memtable's value as it is stored
get_raw(e, key) ==
    IF search(e.memtable, key) # None THEN search(e.memtable, key)
    ELSE GetFromSegments(e, key, Len(e.segments))

\* LSMTree.get
get(e, key) ==
    LET value == search(e.memtable, key) IN
    IF value # None THEN (IF value = TOMBSTONE THEN None ELSE value)
    ELSE GetFromSegments(e, key, Len(e.segments))

\* the loops of fuzzy_get recording a key as checked only when it is live
RECURSIVE FuzzyScan_live(_, _, _, _, _)
FuzzyScan_live(pairs, search_key, max_distance, results, checked_keys) ==
    IF pairs = <<>> THEN results
    ELSE IF /\ Head(pairs)[1] \notin checked_keys
            /\ distance(search_key, Head(pairs)[1]) <= max_distance
            /\ Head(pairs)[2] # TOMBSTONE
    THEN FuzzyScan_live(Tail(pairs), search_key, max_distance,
                        Append(results, Head(pairs)), checked_keys \cup {Head(pairs)[1]})
    ELSE FuzzyScan_live(Tail(pairs), search_key, max_distance, results, checked_keys)

\* the body of the two loops of fuzzy_get over the (key, value) pairs they visit
RECURSIVE FuzzyScan(_, _, _, _, _)
FuzzyScan(pairs, search_key, max_distance, results, checked_keys) ==
    IF pairs = <<>> THEN results
    ELSE LET key == Head(pairs)[1]
             value == Head(pairs)[2]
             hit == key \notin checked_keys /\ distance(search_key, key) <= max_distance
         IN FuzzyScan(Tail(pairs), search_key, max_distance,
                      IF hit /\ value # TOMBSTONE THEN Append(results, <<key, value>>)
                      ELSE results,
                      IF hit THEN checked_keys \cup {key} ELSE checked_keys)

\* the pairs read from segments i, i-1, ..., 1 in that order
RECURSIVE SegmentPairs(_, _)
SegmentPairs(e, i) ==
    IF i = 0 THEN <<>>
    ELSE read_iter(e.dir, e.segments[i].filename) \o SegmentPairs(e, i - 1)

\* LSMTree.fuzzy_get
fuzzy_get(e, search_key, max_distance) ==
    FuzzyScan(items(e.memtable) \o SegmentPairs(e, Len(e.segments)),
              search_key, max_distance, <<>>, {})

\* ------------------------------------------------------------------------
\* Compaction (LSMTree.compact)
\* ------------------------------------------------------------------------

\* the priming loop pushing the first record of each segment twice
RECURSIVE PrimeHeap_twice(_, _, _)
PrimeHeap_twice(segment_iters, i, min_heap) ==
    IF i > Len(segment_iters) THEN min_heap
    ELSE PrimeHeap_twice(segment_iters, i + 1,
             IF segment_iters[i] = <<>> THEN min_heap
             ELSE heappush(heappush(min_heap,
                               <<segment_iters[i][1][1], segment_iters[i][1][2], i - 1, 1>>),
                           <<segment_iters[i][1][1], segment_iters[i][1][2], i - 1, 1>>))

\* "Prime the heap": the first record of each non-empty segment, in list
\* order; i is the 1-based position in the list, the tuple holds i - 1
RECURSIVE PrimeHeap(_, _, _)
PrimeHeap(segment_iters, i, min_heap) ==
    IF i > Len(segment_iters) THEN min_heap
    ELSE PrimeHeap(segment_iters, i + 1,
                   IF segment_iters[i] = <<>> THEN min_heap
                   ELSE heappush(min_heap,
                                 <<segment_iters[i][1][1], segment_iters[i][1][2], i - 1, 1>>))

\* the emit test without its tombstone part
Emits_all(last_key, merged_data) == last_key # None

\* "last_key is not None and merged_data.get(last_key) != TOMBSTONE"
Emits(last_key, merged_data) ==
    last_key # None /\ merged_data[last_key] # TOMBSTONE

\* "next(seg_iter)" and the push of its record, when the iterator that has
\* read pos of its lines has one more
Advance(lines, seg_idx, pos, heap) ==
    IF pos < Len(lines)
    THEN heappush(heap, <<lines[pos + 1][1], lines[pos + 1][2], seg_idx, pos + 1>>)
    ELSE heap

\* one pass of the "while min_heap" loop after the pop of (key, value,
\* seg_idx, iterator at pos) that left heap; m holds the loop's variables
\* and out, the records appended to the temporary file so far
MergeStep(segment_iters, m, key, value, seg_idx, pos, heap) ==
    [min_heap    |-> Advance(segment_iters[seg_idx + 1], seg_idx, pos, heap),
     last_key    |-> key,
     merged_data |-> Store(m.merged_data, key, value),
     out         |-> IF key # m.last_key /\ Emits(m.last_key, m.merged_data)
                     THEN Append(m.out, <<m.last_key, m.merged_data[m.last_key]>>)
                     ELSE m.out]

MergePopped(segment_iters, m, popped) ==
    MergeStep(segment_iters, m, popped.item[1], popped.item[2], popped.item[3],
              popped.item[4], popped.heap)

RECURSIVE MergeLoop(_, _)
MergeLoop(segment_iters, m) ==
    IF m.min_heap = <<>> THEN m
    ELSE MergeLoop(segment_iters, MergePopped(segment_iters, m, heappop(m.min_heap)))

\* the write after the loop, of the last key
MergeEnd(m) ==
    IF Emits(m.last_key, m.merged_data)
    THEN Append(m.out, <<m.last_key, m.merged_data[m.last_key]>>)
    ELSE m.out

\* the loop's variables when the "while min_heap" loop is entered
MergeStart(segment_iters) ==
    [min_heap    |-> PrimeHeap(segment_iters, 1, <<>>),
     last_key    |-> None,
     merged_data |-> <<>>,
     out         |-> <<>>]

MergeIters(segment_iters) ==
    MergeEnd(MergeLoop(segment_iters, MergeStart(segment_iters)))

\* min_heap at each test of "while min_heap", the last one empty
RECURSIVE MergeHeaps(_, _)
MergeHeaps(segment_iters, m) ==
    IF m.min_heap = <<>> THEN <<m.min_heap>>
    ELSE <<m.min_heap>>
         \o MergeHeaps(segment_iters, MergePopped(segment_iters, m, heappop(m.min_heap)))

\* the tuples min_heap.heappop() returns in the loop, in order
RECURSIVE MergePops(_, _)
MergePops(segment_iters, m) ==
    IF m.min_heap = <<>> THEN <<>>
    ELSE <<heappop(m.min_heap).item>>
         \o MergePops(segment_iters, MergePopped(segment_iters, m, heappop(m.min_heap)))

\* segment_iters of compact(): the records of each segment of the list
SegmentIters(e) ==
    [i \in 1..Len(e.segments) |-> read_iter(e.dir, e.segments[i].filename)]

\* the records compact() writes to the temporary file, in order
MergedRecords(e) == MergeIters(SegmentIters(e))

\* the directory after the temporary file was opened and the first j merged
\* records were appended, each by write_from_memtable(..., append=True)
RECURSIVE TempWritten(_, _, _)
TempWritten(d, records, j) ==
    IF j = 0 THEN [d EXCEPT !.sst = Store(@, TempName, <<>>)]
    ELSE write_from_memtable(TempWritten(d, records, j - 1), TempName,
                             dict(<<records[j]>>), TRUE)

\* the removals of the loop "for segment in self.segments", one file each
RECURSIVE Removals(_, _, _)
Removals(d, segs, i) ==
    IF i > Len(segs) THEN <<>>
    ELSE <<<<"sst", segs[i].filename>>>>
         \o (IF segs[i].filename \in DOMAIN d.index
             THEN <<<<"index", segs[i].filename>>>> ELSE <<>>)
         \o (IF segs[i].filename \in DOMAIN d.bf
             THEN <<<<"bf", segs[i].filename>>>> ELSE <<>>)
         \o Removals(d, segs, i + 1)

RemoveFile(d, r) ==
    IF r[1] = "sst" THEN [d EXCEPT !.sst = Remove(@, r[2])]
    ELSE IF r[1] = "index" THEN [d EXCEPT !.index = Remove(@, r[2])]
    ELSE [d EXCEPT !.bf = Remove(@, r[2])]

\* the directory after the first n of the removals rs
RECURSIVE Removed(_, _, _)
Removed(d, rs, n) ==
    IF n = 0 THEN d ELSE RemoveFile(Removed(d, rs, n - 1), rs[n])

\* the bloom filter compact() builds from all_keys, the keys it wrote
CompactBloom(records) ==
    AddAll(BloomFilter(Max2(100, Len(records) * 10), 5),
           [i \in 1..Len(records) |-> records[i][1]])

\* shutil.move(temp_filename, compacted_segment_filename)
Moved(d, filename) ==
    [d EXCEPT !.sst = Remove(Store(@, filename, d.sst[TempName]), TempName)]

\* compact() removing the old files before it moves the temporary file
StepsFrom_early(d, filename, bloom_filter, rs) ==
    <<[d EXCEPT !.bf = Store(@, filename, bloom_filter)]>>
    \o [n \in 1..Len(rs) |->
           Removed([d EXCEPT !.bf = Store(@, filename, bloom_filter)], rs, n)]
    \o <<Moved(Removed([d EXCEPT !.bf = Store(@, filename, bloom_filter)], rs, Len(rs)),
                filename)>>

\* the directories after the bloom filter of the new segment was written to
\* d, after the move, and after each removal rs of an old file
StepsFrom(d, filename, bloom_filter, rs) ==
    <<[d EXCEPT !.bf = Store(@, filename, bloom_filter)],
      Moved([d EXCEPT !.bf = Store(@, filename, bloom_filter)], filename)>>
    \o [n \in 1..Len(rs) |->
           Removed(Moved([d EXCEPT !.bf = Store(@, filename, bloom_filter)], filename),
                   rs, n)]

StepsOf(e, records) ==
    [j \in 1..(Len(records) + 1) |-> TempWritten(e.dir, records, j - 1)]
    \o StepsFrom(TempWritten(e.dir, records, Len(records)), e.segment_counter,
                 CompactBloom(records), Removals(e.dir, e.segments, 1))

\* the directory after each step of compact() on an engine with at least
\* two segments, in the order the steps are made: temporary file created;
\* each merged record appended; new bloom filter written; temporary file
\* moved to its segment name; each old file removed
CompactSteps(e) == StepsOf(e, MergedRecords(e))

\* the swap of compact() appending the new segment to the old list
Swapped_kept(e, d) ==
    [e EXCEPT !.dir = SSTableDir(d, e.segment_counter),
              !.segments = Append(e.segments, SSTable(d, e.segment_counter)),
              !.segment_counter = e.segment_counter + 1]

\* "self.segments = [SSTable(compacted_segment_filename)]; self.segment_counter += 1"
\* on the directory d the steps left
Swapped(e, d) ==
    [e EXCEPT !.dir = SSTableDir(d, e.segment_counter),
              !.segments = <<SSTable(d, e.segment_counter)>>,
              !.segment_counter = e.segment_counter + 1]

LastOf(s) == s[Len(s)]

\* LSMTree.compact
compact(e) ==
    IF Len(e.segments) < 2 THEN e ELSE Swapped(e, LastOf(CompactSteps(e)))

\* ------------------------------------------------------------------------
\* DB wrapper (db.py)
\* ------------------------------------------------------------------------

\* LSMTree.__init__'s default memtable_threshold, which DB.__init__ uses
DefaultThreshold == 100

\* DB.get without the tombstone test
DBGet_raw(value) == value

\* DB.get over the value the engine's get returned
DBGet(value) == IF value = TOMBSTONE THEN None ELSE value

\* ------------------------------------------------------------------------
\* State
\* ------------------------------------------------------------------------

VARIABLES
    memtable,            \* LSMTree.memtable: root of the memtable B-Tree
    memtable_threshold,  \* LSMTree.memtable_threshold
    segments,            \* LSMTree.segments: the SSTable objects, oldest first
    segment_counter,     \* LSMTree.segment_counter
    dir,                 \* the .sst, .index and .bf files of the engine directory
    wal,                 \* the records of btree.wal in the engine directory
    bt_root,             \* DB(engine_type='btree').engine.root
    bt_wal,              \* the records of that B-Tree's btree.wal
    bt_t,                \* BTree.t of that B-Tree
    bt_ops,              \* the insert and delete calls made on a standalone B-Tree
    sst_map,             \* the dict last given to SSTable.write_from_memtable
    sst_dir,             \* the files of the directory of a standalone SSTable
    sst_seg,             \* the SSTable object on that directory
    bf,                  \* a standalone BloomFilter object
    bf_added,            \* history: the items added to it
    heap,                \* MinHeap.heap of a standalone MinHeap
    heap_in,             \* history: the items pushed, in the order pushed
    heap_out,            \* history: the items popped, in the order popped
    heap_run,            \* history: the pops made since the last push
    lev_a,               \* the arguments of a call of Levenshtein.distance
    lev_b,
    lev_d,               \* what the call returned
    db_type,             \* engine_type of the DB object under misuse, "none"
                         \* when there is no DB object
    raised,              \* the exception the last call raised, or "none"
    raised_log,          \* history: the exceptions raised so far
    phase,               \* "open"; "closed" after close(); "failed" when the
                         \* constructor raised
    last_op,             \* the operation that led to this state: "init", "put",
                         \* "delete", "compact", "close", or the construction of
                         \* a new instance: "reopen_close" after close(),
                         \* "reopen_abandon" after the process ended between two
                         \* operations, "reopen_crash" after it ended in compact()
    flushed,             \* whether that operation wrote the memtable to a segment
    latest,              \* history: the value of the most recent write of each key
    snap                 \* history: get(k) of the previous instance when it ended

\* the state the LSM engine's operations never touch
btown == <<bt_t, bt_ops>>

sstown == <<sst_map, sst_dir, sst_seg>>

bfown == <<bf, bf_added>>

heapown == <<heap, heap_in, heap_out, heap_run>>

levown == <<lev_a, lev_b, lev_d>>

errown == <<db_type, raised, raised_log>>

libvars == <<btown, sstown, bfown, heapown, levown, errown>>

vars == <<memtable, memtable_threshold, segments, segment_counter, dir, wal,
          bt_root, bt_wal, phase, last_op, flushed, latest, snap, libvars>>

\* no SSTable has been written on its own
SSTIdle ==
    /\ sst_map = <<>>
    /\ sst_dir = EmptyDir
    /\ sst_seg = SSTable(EmptyDir, 0)

\* no standalone filter is in use: an empty one
BloomIdle ==
    /\ bf = BloomFilter(100, 5)
    /\ bf_added = {}

\* no standalone heap is in use: MinHeap()
HeapIdle ==
    /\ heap = <<>>
    /\ heap_in = <<>>
    /\ heap_out = <<>>
    /\ heap_run = 0

\* no distance was computed
LevIdle ==
    /\ lev_a = <<>>
    /\ lev_b = <<>>
    /\ lev_d = 0

\* no DB object under misuse, no exception raised
ErrIdle ==
    /\ db_type = "none"
    /\ raised = "none"
    /\ raised_log = {}

\* no standalone B-Tree is in use: the DB wrapper's, empty
BTIdle ==
    /\ bt_root = BTreeInit(MemtableT, <<>>)
    /\ bt_wal = <<>>
    /\ bt_t = MemtableT
    /\ bt_ops = 0
    /\ latest = [k \in Keys |-> None]
    /\ snap = [k \in Keys |-> None]

\* the LSMTree object with the files of its directory
Engine ==
    [memtable |-> memtable, memtable_threshold |-> memtable_threshold,
     segments |-> segments, segment_counter |-> segment_counter,
     dir |-> dir, wal |-> wal, failed |-> phase = "failed"]

SetEngine(e) ==
    /\ memtable' = e.memtable
    /\ memtable_threshold' = e.memtable_threshold
    /\ segments' = e.segments
    /\ segment_counter' = e.segment_counter
    /\ dir' = e.dir
    /\ wal' = e.wal

NoSnap == [k \in Keys |-> None]

GetAll(e) == [k \in Keys |-> get(e, k)]

\* what get(k) is to return by the engine contract
Expected(k) == IF latest[k] = TOMBSTONE THEN None ELSE latest[k]

\* whether _flush_memtable, called on e, writes a segment
Flushes(e) == items(e.memtable) # <<>>

\* whether put(key, value) on e calls _flush_memtable
PutFlushes(e, key, value) ==
    Len(items(insert(e.memtable, key, value, MemtableT))) >= e.memtable_threshold

InitWith(threshold) ==
    /\ LET e == LSMTreeInit(EmptyDir, <<>>, threshold)
       IN /\ memtable = e.memtable
          /\ memtable_threshold = e.memtable_threshold
          /\ segments = e.segments
          /\ segment_counter = e.segment_counter
          /\ dir = e.dir
          /\ wal = e.wal
    /\ bt_root = BTreeInit(MemtableT, <<>>)
    /\ bt_wal = <<>>
    /\ bt_t = MemtableT
    /\ bt_ops = 0
    /\ SSTIdle
    /\ BloomIdle
    /\ HeapIdle
    /\ LevIdle
    /\ ErrIdle
    /\ phase = "open"
    /\ last_op = "init"
    /\ flushed = FALSE
    /\ latest = [k \in Keys |-> None]
    /\ snap = NoSnap

\* LSMTree(directory, memtable_threshold) on an empty directory
Init == \E threshold \in 1..MaxThreshold : InitWith(threshold)

\* ------------------------------------------------------------------------
\* Operations of the LSM engine
\* ------------------------------------------------------------------------

Put(k, v) ==
    /\ phase = "open"
    /\ Len(wal) < MaxOps
    /\ SetEngine(put(Engine, k, v))
    /\ latest' = [latest EXCEPT ![k] = v]
    /\ last_op' = "put"
    /\ flushed' = PutFlushes(Engine, k, v)
    /\ snap' = NoSnap
    /\ UNCHANGED <<libvars, bt_root, bt_wal, phase>>

Delete(k) ==
    /\ phase = "open"
    /\ Len(wal) < MaxOps
    /\ SetEngine(delete(Engine, k))
    /\ latest' = [latest EXCEPT ![k] = TOMBSTONE]
    /\ last_op' = "delete"
    /\ flushed' = PutFlushes(Engine, k, TOMBSTONE)
    /\ snap' = NoSnap
    /\ UNCHANGED <<libvars, bt_root, bt_wal, phase>>

Compact ==
    /\ phase = "open"
    /\ segment_counter < MaxCounter
    /\ SetEngine(compact(Engine))
    /\ last_op' = "compact"
    /\ flushed' = FALSE
    /\ snap' = NoSnap
    /\ UNCHANGED <<libvars, bt_root, bt_wal, phase, latest>>

Close ==
    /\ phase = "open"
    /\ segment_counter < MaxCounter
    /\ SetEngine(close(Engine))
    /\ phase' = "closed"
    /\ last_op' = "close"
    /\ flushed' = Flushes(Engine)
    /\ snap' = GetAll(Engine)
    /\ UNCHANGED <<libvars, bt_root, bt_wal, latest>>

\* a new LSMTree is constructed on the directory d and the log the previous
\* instance left
Construct(d, op) ==
    /\ LET e == LSMTreeInit(d, wal, memtable_threshold)
       IN /\ SetEngine(e)
          /\ phase' = IF e.failed THEN "failed" ELSE "open"
    /\ last_op' = op
    /\ flushed' = FALSE
    /\ UNCHANGED <<libvars, bt_root, bt_wal, latest>>

\* reopening after close()
Reopen ==
    /\ phase = "closed"
    /\ Construct(dir, "reopen_close")
    /\ UNCHANGED snap

\* the process ends between two operations, without close(), and a new
\* instance is constructed
Abandon ==
    /\ phase = "open"
    /\ Construct(dir, "reopen_abandon")
    /\ snap' = GetAll(Engine)

\* the process ends inside compact(), after the i-th of its steps on the
\* files, and a new instance is constructed
CrashInCompact(i) ==
    /\ phase = "open"
    /\ segment_counter < MaxCounter
    /\ Len(segments) >= 2
    /\ LET steps == CompactSteps(Engine)
       IN /\ i \in 1..Len(steps)
          /\ Construct(steps[i], "reopen_crash")
    /\ snap' = GetAll(Engine)

\* most steps compact() makes on the files of MaxCounter segments over Keys
MaxCrashStep == 3 * MaxCounter + Cardinality(Keys) + 3

Next ==
    \/ \E k \in Keys, v \in Values : Put(k, v)
    \/ \E k \in Keys : Delete(k)
    \/ Compact
    \/ Close
    \/ Reopen
    \/ Abandon

Spec == Init /\ [][Next]_vars

\* the same engine when the process may also end inside compact()
NextCrash ==
    \/ Next
    \/ \E i \in 1..MaxCrashStep : CrashInCompact(i)

SpecCrash == Init /\ [][NextCrash]_vars

\* ------------------------------------------------------------------------
\* Two DB objects, one per engine type, each on a directory of its own and
\* driven by the same calls
\* ------------------------------------------------------------------------

\* DB(engine_type='btree').get(k)
BTreeDBGet(k) == DBGet(search(bt_root, k))

\* DB(engine_type='lsmtree').get(k)
LSMTreeDBGet(k) == DBGet(get(Engine, k))

\* DB(engine_type='btree') and DB(engine_type='lsmtree') on empty directories
InitDB == InitWith(DefaultThreshold)

\* DB.put on both: BTree.put and LSMTree.put
DBPut(k, v) ==
    /\ phase = "open"
    /\ Len(wal) < MaxOps
    /\ SetEngine(put(Engine, k, v))
    /\ bt_wal' = WalWrite(bt_wal, "insert", k, v)
    /\ bt_root' = insert(bt_root, k, v, MemtableT)
    /\ latest' = [latest EXCEPT ![k] = v]
    /\ last_op' = "put"
    /\ flushed' = PutFlushes(Engine, k, v)
    /\ UNCHANGED <<libvars, phase, snap>>

\* DB.delete on both: BTree.delete and LSMTree.delete
DBDelete(k) ==
    /\ phase = "open"
    /\ Len(wal) < MaxOps
    /\ SetEngine(delete(Engine, k))
    /\ bt_wal' = WalWrite(bt_wal, "insert", k, TOMBSTONE)
    /\ bt_root' = insert(bt_root, k, TOMBSTONE, MemtableT)
    /\ latest' = [latest EXCEPT ![k] = TOMBSTONE]
    /\ last_op' = "delete"
    /\ flushed' = PutFlushes(Engine, k, TOMBSTONE)
    /\ UNCHANGED <<libvars, phase, snap>>

\* DB.close on both: LSMTree has close, BTree has none
DBClose ==
    /\ phase = "open"
    /\ segment_counter < MaxCounter
    /\ SetEngine(close(Engine))
    /\ phase' = "closed"
    /\ last_op' = "close"
    /\ flushed' = Flushes(Engine)
    /\ UNCHANGED <<libvars, bt_root, bt_wal, latest, snap>>

\* DB.__init__ of both again, on the directories the closed ones left
DBReopen ==
    /\ phase = "closed"
    /\ SetEngine(LSMTreeInit(dir, wal, DefaultThreshold))
    /\ bt_root' = BTreeInit(MemtableT, bt_wal)
    /\ phase' = "open"
    /\ last_op' = "reopen_close"
    /\ flushed' = FALSE
    /\ UNCHANGED <<libvars, bt_wal, latest, snap>>

NextDB ==
    \/ \E k \in Keys, v \in Values : DBPut(k, v)
    \/ \E k \in Keys : DBDelete(k)
    \/ DBClose
    \/ DBReopen

SpecDB == InitDB /\ [][NextDB]_vars

\* ------------------------------------------------------------------------
\* Properties
\* ------------------------------------------------------------------------

\* the records of segment file name that carry key k
HoldsKey(d, name, k) == \E i \in 1..Len(d.sst[name]) : d.sst[name][i][1] = k

\* some segment of the list holds a live (non-tombstone) record of k
StaleLiveRecord(k) ==
    \E s \in 1..Len(segments) :
        \E i \in 1..Len(dir.sst[segments[s].filename]) :
            /\ dir.sst[segments[s].filename][i][1] = k
            /\ dir.sst[segments[s].filename][i][2] # TOMBSTONE
            /\ dir.sst[segments[s].filename][i][2] # latest[k]

\* C1: last write wins.  On an open engine, after any puts, deletes,
\* flushes and compactions, get(k) is the value of the most recent put of
\* every key whose most recent write is a put of a live value.
C1_LastWriteWins ==
    phase = "open" =>
        \A k \in Keys : latest[k] \in Values => get(Engine, k) = latest[k]

\* C1 witness: a key was overwritten with another live value, the older
\* value is still stored in a segment, a compaction has been done, and get
\* returns the newer value.
C1_Witness ==
    /\ phase = "open"
    /\ last_op = "compact"
    /\ Len(segments) = 1
    /\ \E k \in Keys : /\ latest[k] \in Values
                       /\ StaleLiveRecord(k)
                       /\ get(Engine, k) = latest[k]

\* C2: delete shadowing.  On an open engine, get(k) is absent for every key
\* whose most recent write is a delete, whatever flushes and compactions
\* were done and whatever live values of k the segments still hold.
C2_DeleteShadows ==
    phase = "open" =>
        \A k \in Keys : latest[k] = TOMBSTONE => get(Engine, k) = None

\* C2 witness: a deleted key of which a segment still holds a live value,
\* and get returns absent.
C2_Witness ==
    /\ phase = "open"
    /\ \E k \in Keys : /\ latest[k] = TOMBSTONE
                       /\ StaleLiveRecord(k)
                       /\ get(Engine, k) = None

\* C3: persistence.  A new LSMTree constructed on the directory after
\* close() returns for every key what the closed instance returned before
\* close(): the last written value, or absent for a deleted key.
C3_Persistence ==
    last_op = "reopen_close" =>
        /\ phase = "open"
        /\ \A k \in Keys : get(Engine, k) = snap[k] /\ get(Engine, k) = Expected(k)

\* C3 witness: an engine reopened after close() with one key live, one key
\* deleted and at least two segments on disk.
C3_Witness ==
    /\ last_op = "reopen_close"
    /\ Len(segments) >= 2
    /\ \E k \in Keys : latest[k] = TOMBSTONE /\ get(Engine, k) = None
    /\ \E k \in Keys : latest[k] \in Values /\ get(Engine, k) = latest[k]

\* C4: crash recovery.  A new LSMTree constructed on the directory of an
\* instance abandoned between two operations, without close(), returns for
\* every key what the abandoned instance would have returned.
C4_CrashRecovery ==
    last_op = "reopen_abandon" =>
        /\ phase = "open"
        /\ \A k \in Keys : get(Engine, k) = snap[k] /\ get(Engine, k) = Expected(k)

\* C4 witness: an engine reopened after an abandon at which no segment had
\* been written, so that the acknowledged writes were in the WAL only.
C4_Witness ==
    /\ last_op = "reopen_abandon"
    /\ segments = <<>>
    /\ wal # <<>>
    /\ \E k \in Keys : latest[k] \in Values /\ get(Engine, k) = latest[k]

\* C5: compaction convergence.  When compact() returns, the segment list
\* has at most one segment, exactly one if it had two or more before, and
\* get(k) is the latest value of every key, absent if it was deleted last.
C5_CompactionConverges ==
    [][Compact =>
          /\ Len(segments') <= 1
          /\ (Len(segments) >= 2 => Len(segments') = 1)
          /\ \A k \in Keys : get(Engine', k) = Expected(k)']_vars

\* C5 witness: compact() has merged at least two segments into one, the
\* merged file holds a live record of a key deleted last, and get returns
\* absent for it.
C5_Witness ==
    /\ last_op = "compact"
    /\ Len(segments) = 1
    /\ segments[1].filename >= 2
    /\ \E k \in Keys : /\ latest[k] = TOMBSTONE
                       /\ HoldsKey(dir, segments[1].filename, k)
                       /\ get(Engine, k) = None

\* C6: fresh memtable after flush.  Immediately after an operation (put,
\* delete or close) flushed the memtable, the memtable holds no record.
C6_FreshMemtable == flushed => items(memtable) = <<>>

\* C7: WAL reinitialised on flush.  Immediately after an operation flushed
\* the memtable, btree.wal holds no record written before the flush.
C7_WalReinitialised == flushed => wal = <<>>

\* C8: crash during compaction.  After the process stopped at any step of
\* compact(), constructing a new LSMTree on the directory succeeds and get
\* returns the last written value of every key, absent for deleted keys.
C8_CrashInCompaction ==
    last_op = "reopen_crash" =>
        /\ phase = "open"
        /\ \A k \in Keys : get(Engine, k) = Expected(k)

\* the set of pairs of a fuzzy_get result
PairSet(r) == {r[i] : i \in 1..Len(r)}

\* no key occurs twice in a fuzzy_get result
DistinctKeys(r) == \A i, j \in 1..Len(r) : i # j => r[i][1] # r[j][1]

\* the pairs (k, get(k)) of the keys within distance d of s that get finds
LiveWithin(s, d) ==
    {<<k, get(Engine, k)>> :
        k \in {x \in Keys : distance(s, x) <= d /\ get(Engine, x) # None}}

\* C9: fuzzy_get agrees with get.  On an open engine fuzzy_get(s, d) returns
\* exactly the pairs (k, get(k)) of the keys k with distance(s, k) <= d that
\* get finds, each key once; a key deleted last never appears.
C9_FuzzyAgreesWithGet ==
    phase = "open" =>
        \A s \in SearchKeys : \A d \in 0..MaxDistance :
            LET r == fuzzy_get(Engine, s, d)
            IN PairSet(r) = LiveWithin(s, d) /\ DistinctKeys(r)

\* C9 witness: a deleted key of which a segment still holds a live value
\* lies within the distance of the search key, and fuzzy_get does not
\* return it.
C9_Witness ==
    /\ phase = "open"
    /\ \E k \in Keys : \E s \in SearchKeys : \E d \in 0..MaxDistance :
          /\ latest[k] = TOMBSTONE
          /\ StaleLiveRecord(k)
          /\ distance(s, k) <= d
          /\ \A i \in 1..Len(fuzzy_get(Engine, s, d)) : fuzzy_get(Engine, s, d)[i][1] # k

\* C10: engine interchangeability.  After the same puts and deletes, DB.get
\* returns the same for every key on the B-Tree DB and on the LSM DB: the
\* last put value, or None for a key never written or deleted last.
C10_EnginesAgree ==
    \A k \in Keys : BTreeDBGet(k) = LSMTreeDBGet(k) /\ LSMTreeDBGet(k) = Expected(k)

\* C10 witness: both DBs hold a live key and a deleted key, and the LSM DB
\* has written a segment.
C10_Witness ==
    /\ segments # <<>>
    /\ \E k \in Keys : latest[k] = TOMBSTONE /\ BTreeDBGet(k) = None
    /\ \E k \in Keys : latest[k] \in Values /\ BTreeDBGet(k) = latest[k]


\* ------------------------------------------------------------------------
\* A standalone B-Tree on a WAL path of its own (btree.py, wal.py)
\* ------------------------------------------------------------------------

\* the engine's own state, which the component specifications leave alone
lsmvars == <<memtable, memtable_threshold, segments, segment_counter, dir, wal,
             phase, flushed>>

\* an LSMTree on an empty directory that nothing is done to
EngineIdle ==
    /\ LET e == LSMTreeInit(EmptyDir, <<>>, DefaultThreshold)
       IN /\ memtable = e.memtable
          /\ memtable_threshold = e.memtable_threshold
          /\ segments = e.segments
          /\ segment_counter = e.segment_counter
          /\ dir = e.dir
          /\ wal = e.wal
    /\ phase = "open"
    /\ flushed = FALSE

\* the B-Tree of the DB wrapper or on its own, with the histories
dbvars == <<bt_root, bt_wal, latest, snap, btown>>

\* at most MaxBTOps insert and delete calls are made on a standalone B-Tree
MaxBTOps == 2

\* "a" .. "g"
BTKeys == {<<97>>, <<98>>, <<99>>, <<100>>, <<101>>, <<102>>, <<103>>}

\* the keys a log found at construction may hold: "a" .. "d"
BTBaseKeys == {<<97>>, <<98>>, <<99>>, <<100>>}

\* the value the log found at construction gives them, "a", and the value
\* the calls write, "A"
BTInitValue == <<97>>

BTValues == {<<65>>}

\* the minimum degrees t the tree is built with
Degrees == {2, 3}

\* the logs that insert every key of S once, in any order
RECURSIVE LogsOf(_)
LogsOf(S) ==
    IF S = {} THEN {<<>>}
    ELSE UNION {{WalWrite(l, "insert", k, BTInitValue) : l \in LogsOf(S \ {k})} : k \in S}

\* btree.wal as a B-Tree may find it when constructed
InitLogs == LogsOf({}) \cup LogsOf(BTBaseKeys)

\* the value of the last record of the log for key k
RECURSIVE LatestOf(_, _)
LatestOf(log, k) ==
    IF log = <<>> THEN None
    ELSE IF log[Len(log)].key = k THEN log[Len(log)].value
    ELSE LatestOf(SubSeq(log, 1, Len(log) - 1), k)

\* BTree(t, wal_path) on a WAL path that holds one of InitLogs
InitBT ==
    /\ EngineIdle
    /\ \E t \in Degrees, log \in InitLogs :
        /\ bt_t = t
        /\ bt_wal = log
        /\ bt_root = BTreeInit(t, log)
        /\ latest = [k \in BTKeys |-> LatestOf(log, k)]
    /\ bt_ops = 0
    /\ last_op = "init"
    /\ snap = <<>>
    /\ SSTIdle
    /\ BloomIdle
    /\ HeapIdle
    /\ LevIdle
    /\ ErrIdle

\* BTree.insert(k, v) / BTree.put(k, v)
BTInsert(k, v) ==
    /\ bt_ops < MaxBTOps
    /\ bt_ops' = bt_ops + 1
    /\ bt_wal' = InsertLog(bt_wal, k, v, TRUE)
    /\ bt_root' = insert(bt_root, k, v, bt_t)
    /\ latest' = [latest EXCEPT ![k] = v]
    /\ last_op' = "bt_insert"
    /\ snap' = <<>>
    /\ UNCHANGED <<lsmvars, bt_t, sstown, bfown, heapown, levown, errown>>

\* BTree.delete(k)
BTDelete(k) ==
    /\ bt_ops < MaxBTOps
    /\ bt_ops' = bt_ops + 1
    /\ bt_wal' = InsertLog(bt_wal, k, TOMBSTONE, TRUE)
    /\ bt_root' = BTreeDelete(bt_root, k, bt_t)
    /\ latest' = [latest EXCEPT ![k] = TOMBSTONE]
    /\ last_op' = "bt_delete"
    /\ snap' = <<>>
    /\ UNCHANGED <<lsmvars, bt_t, sstown, bfown, heapown, levown, errown>>

\* a new BTree(t, wal_path) on the same WAL path; snap keeps the items of
\* the tree it replaces
BTReopen ==
    /\ last_op # "bt_reopen"
    /\ bt_root' = BTreeInit(bt_t, bt_wal)
    /\ bt_wal' = recover_log(bt_wal, bt_wal)
    /\ last_op' = "bt_reopen"
    /\ snap' = items(bt_root)
    /\ UNCHANGED <<lsmvars, libvars, latest>>

NextBT ==
    \/ \E k \in BTKeys, v \in BTValues : BTInsert(k, v)
    \/ \E k \in BTKeys : BTDelete(k)
    \/ BTReopen

SpecBT == InitBT /\ [][NextBT]_vars

\* C11: the B-Tree is a map.  After any sequence of insert, put and delete
\* calls, for any degree and with any number of splits, search(k) is the
\* value of the most recent insert of k, and None for a key never inserted.
C11_BTreeIsMap ==
    \A k \in BTKeys : search(bt_root, k) = latest[k]

\* a root with three children or more (a child was split after the root
\* was), a key written by a call, and a key never inserted
C11_Witness ==
    /\ ~bt_root.leaf
    /\ Len(bt_root.child) >= 3
    /\ \E k \in BTKeys : latest[k] \in BTValues /\ search(bt_root, k) = latest[k]
    /\ \E k \in BTKeys : latest[k] = None /\ search(bt_root, k) = None

\* C12: WAL recovery round trip.  A new BTree constructed on the WAL path of
\* another, with no insert issued again, has the items() of the tree it
\* replaces and the same search result for every key.
C12_WalRoundTrip ==
    last_op = "bt_reopen" =>
        /\ items(bt_root) = snap
        /\ \A k \in BTKeys : search(bt_root, k) = latest[k]

\* a reopened tree that had split, with an overwritten key and a tombstone
C12_Witness ==
    /\ last_op = "bt_reopen"
    /\ ~bt_root.leaf
    /\ snap # <<>>
    /\ \E k \in BTBaseKeys : latest[k] \in BTValues
    /\ \E k \in BTKeys : latest[k] = TOMBSTONE

\* C13: BTree.delete(k) leaves the tombstone visible.  After it, get(k) is
\* TOMBSTONE, not None, whether or not k was inserted before, and get of
\* every other key is what it was.
C13_DeleteLeavesTombstone ==
    [][\A k \in BTKeys :
        BTDelete(k) =>
            /\ search(bt_root', k) = TOMBSTONE
            /\ search(bt_root', k) # None
            /\ \A j \in BTKeys \ {k} : search(bt_root', j) = search(bt_root, j)]_vars

\* the only call made deleted a key that was never inserted, in a tree of
\* several nodes
C13_Witness ==
    /\ last_op = "bt_delete"
    /\ bt_ops = 1
    /\ ~bt_root.leaf
    /\ \E k \in BTKeys \ BTBaseKeys : search(bt_root, k) = TOMBSTONE
    /\ \E j \in BTBaseKeys : search(bt_root, j) = BTInitValue

\* C14: ordered enumeration.  items() lists the pairs in strictly ascending
\* key order, one pair per distinct inserted key, each with the key's
\* latest value.
C14_ItemsOrdered ==
    LET r == items(bt_root) IN
    /\ \A i \in 1..(Len(r) - 1) : StrLess(r[i][1], r[i + 1][1])
    /\ {r[i][1] : i \in 1..Len(r)} = {k \in BTKeys : latest[k] # None}
    /\ \A i \in 1..Len(r) : r[i][2] = latest[r[i][1]]

\* as many keys as the calls can insert, in a tree whose root has three
\* children or more, one key written by a call
C14_Witness ==
    /\ Len(items(bt_root)) = Cardinality(BTBaseKeys) + MaxBTOps
    /\ ~bt_root.leaf
    /\ Len(bt_root.child) >= 3
    /\ \E i \in 1..Len(items(bt_root)) : items(bt_root)[i][2] \in BTValues

\* ------------------------------------------------------------------------
\* A standalone SSTable (sstable.py): files written from a dict by
\* write_from_memtable, and files written record by record and renamed, as
\* compact() writes its segment, whose index is rebuilt when it is opened
\* ------------------------------------------------------------------------

\* the dicts written hold at most MaxRecords records
MaxRecords == 21

\* the i-th key of the key universe, ascending in i, two or three characters
SSTKey(i) ==
    <<97 + (i \div 8), 97 + (i % 8)>> \o (IF i % 3 = 0 THEN <<97>> ELSE <<>>)

\* the value the dict gives the i-th key: a tombstone for every third key
\* from c on (none when c = 3), "A" or "ab" for the others
SSTValue(i, c) ==
    IF i % 3 = c THEN TOMBSTONE ELSE IF i % 2 = 0 THEN <<65>> ELSE <<97, 98>>

\* the dict of n records whose keys are every gap-th key from start on
MapOf(n, start, gap, c) ==
    dict([j \in 1..n |-> <<SSTKey(start + gap * (j - 1)), SSTValue(start + gap * (j - 1), c)>>])

\* the keys looked up: the universe, "" below it and "zz" above it
ProbeKeys == {SSTKey(i) : i \in 0..(2 * MaxRecords + 2)} \cup {<<>>, <<122, 122>>}

\* the records of a dict that are not tombstones, sorted
RECURSIVE LiveRecords(_)
LiveRecords(pairs) ==
    IF pairs = <<>> THEN <<>>
    ELSE (IF Head(pairs)[2] = TOMBSTONE THEN <<>> ELSE <<Head(pairs)>>)
         \o LiveRecords(Tail(pairs))

InitSST ==
    /\ EngineIdle
    /\ BTIdle
    /\ SSTIdle
    /\ BloomIdle
    /\ HeapIdle
    /\ LevIdle
    /\ ErrIdle
    /\ last_op = "init"

\* SSTable.write_from_memtable(filename, M) for the file 0.sst of an empty directory
SSTWrite(n, start, gap, c) ==
    /\ last_op = "init"
    /\ sst_map' = MapOf(n, start, gap, c)
    /\ sst_dir' = SSTableDir(write_from_memtable(EmptyDir, 0, sst_map', FALSE), 0)
    /\ sst_seg' = SSTable(write_from_memtable(EmptyDir, 0, sst_map', FALSE), 0)
    /\ last_op' = "sst_write"
    /\ UNCHANGED <<lsmvars, dbvars, bfown, heapown, levown, errown>>

\* the directory after the writing steps of compact() for the merged
\* records: each appended to the temporary file, the bloom filter of the
\* new segment written, the temporary file moved
MergeWritten(records, filename) ==
    Moved([TempWritten(EmptyDir, records, Len(records))
              EXCEPT !.bf = Store(@, filename, CompactBloom(records))], filename)

\* a segment 1.sst written as compact() writes it from the live records of a
\* dict, then opened by SSTable(filename)
SSTMergeWrite(n, start, gap, c) ==
    /\ last_op = "init"
    /\ sst_map' = dict(LiveRecords(SortedItems(MapOf(n, start, gap, c))))
    /\ sst_dir' = SSTableDir(MergeWritten(SortedItems(sst_map'), 1), 1)
    /\ sst_seg' = SSTable(MergeWritten(SortedItems(sst_map'), 1), 1)
    /\ last_op' = "sst_merge"
    /\ UNCHANGED <<lsmvars, dbvars, bfown, heapown, levown, errown>>

NextSST ==
    \/ \E n \in 0..MaxRecords, start \in 0..1, gap \in 1..2, c \in 0..3 :
           SSTWrite(n, start, gap, c)
    \/ \E n \in 0..MaxRecords, start \in 0..1, gap \in 1..2, c \in 0..3 :
           SSTMergeWrite(n, start, gap, c)

SpecSST == InitSST /\ [][NextSST]_vars

\* what SSTable.get(k) is to return for the dict written
SSTExpected(k) ==
    IF k \in DOMAIN sst_map /\ sst_map[k] # TOMBSTONE THEN sst_map[k] ELSE None

\* C15: SSTable point read.  For an SSTable built by write_from_memtable from
\* a dict M, get(k) is M[k] for every key of M whose value is not the
\* tombstone, and None for every key whose value is the tombstone and every
\* key not in M: below the first key, above the last, between two records.
C15_PointRead ==
    last_op = "sst_write" =>
        \A k \in ProbeKeys : SSTableGet(sst_dir, sst_seg, k) = SSTExpected(k)

\* a file of more than two blocks whose last block is not full, holding a
\* tombstone, with keys missing below, between and above its records
C15_Witness ==
    /\ last_op = "sst_write"
    /\ Len(sst_dir.sst[0]) > 2 * SPARSE_INDEX_STRIDE
    /\ Len(sst_dir.sst[0]) % SPARSE_INDEX_STRIDE # 0
    /\ \E k \in DOMAIN sst_map : sst_map[k] = TOMBSTONE
    /\ \E k \in DOMAIN sst_map : sst_map[k] # TOMBSTONE /\ SSTableGet(sst_dir, sst_seg, k) = sst_map[k]
    /\ \E k \in ProbeKeys \ DOMAIN sst_map :
        /\ k # <<>>
        /\ StrLess(k, sst_dir.sst[0][1][1])
    /\ \E k \in ProbeKeys \ DOMAIN sst_map :
        /\ StrLess(sst_dir.sst[0][1][1], k)
        /\ StrLess(k, sst_dir.sst[0][Len(sst_dir.sst[0])][1])

\* a sparse index right for the lines of a file: one entry per
\* SPARSE_INDEX_STRIDE records started, entry j (0-based) the key of record
\* SPARSE_INDEX_STRIDE * j with the byte offset at which its line begins
IndexRight(index, lines) ==
    /\ Len(index) = (Len(lines) + SPARSE_INDEX_STRIDE - 1) \div SPARSE_INDEX_STRIDE
    /\ \A j \in 1..Len(index) :
        /\ index[j][1] = lines[SPARSE_INDEX_STRIDE * (j - 1) + 1][1]
        /\ index[j][2] = OffsetOf(lines, SPARSE_INDEX_STRIDE * (j - 1) + 1)

\* C16: sparse-index correctness.  For an SSTable of n records, with its
\* index written by write_from_memtable or rebuilt from the .sst when it is
\* opened, the index has ceil(n / 10) entries, entry j is the key of record
\* 10 * j and its offset is the byte position at which that line begins.
C16_SparseIndex ==
    last_op \in {"sst_write", "sst_merge"} =>
        /\ IndexRight(sst_seg.sparse_index, sst_dir.sst[sst_seg.filename])
        /\ IndexRight(sst_dir.index[sst_seg.filename], sst_dir.sst[sst_seg.filename])

\* an index rebuilt on open for a file of more than two blocks, the last
\* one not full
C16_Witness ==
    /\ last_op = "sst_merge"
    /\ Len(sst_dir.sst[1]) > 2 * SPARSE_INDEX_STRIDE
    /\ Len(sst_dir.sst[1]) % SPARSE_INDEX_STRIDE # 0
    /\ Len(sst_seg.sparse_index) = 3
    /\ sst_seg.sparse_index[3][2] > 2 * SPARSE_INDEX_STRIDE

\* ------------------------------------------------------------------------
\* A standalone bloom filter (bloom_filter.py)
\* ------------------------------------------------------------------------

\* the sizes and hash counts the filter is built with
BloomSizes == {1, 3, 8, 100}

BloomHashCounts == {1, 2, 5}

\* the items added and tested: "", "a", "ab", "abb", "b"
BloomItems == {<<>>, <<97>>, <<97, 98>>, <<97, 98, 98>>, <<98>>}

\* BloomFilter(size, hash_count)
InitBloom ==
    /\ EngineIdle
    /\ BTIdle
    /\ SSTIdle
    /\ HeapIdle
    /\ LevIdle
    /\ ErrIdle
    /\ \E size \in BloomSizes, hash_count \in BloomHashCounts :
        bf = BloomFilter(size, hash_count)
    /\ bf_added = {}
    /\ last_op = "init"

\* BloomFilter.add(item)
BloomAdd(item) ==
    /\ bf' = add(bf, item)
    /\ bf_added' = bf_added \cup {item}
    /\ last_op' = "bf_add"
    /\ UNCHANGED <<lsmvars, dbvars, sstown, heapown, levown, errown>>

NextBloom == \E item \in BloomItems : BloomAdd(item)

SpecBloom == InitBloom /\ [][NextBloom]_vars

\* C17: no false negatives.  Whatever the filter's size and whatever was
\* added, every item ever added is reported as contained by every later
\* membership test, and a bit of bit_array that is set stays set.
C17_NoFalseNegatives ==
    /\ [](\A item \in bf_added : contains(bf, item))
    /\ [][bf.bit_array \subseteq bf'.bit_array]_vars

\* a filter with free bits left that holds two items or more and reports an
\* item that was never added (a false positive) next to one it rejects
C17_Witness ==
    /\ Cardinality(bf_added) >= 2
    /\ \A item \in bf_added : contains(bf, item)
    /\ \E item \in BloomItems \ bf_added : contains(bf, item)
    /\ \E item \in BloomItems \ bf_added : ~contains(bf, item)

\* ------------------------------------------------------------------------
\* A standalone min-heap (heap.py)
\* ------------------------------------------------------------------------

\* at most MaxPushes items are pushed
MaxPushes == 4

\* the items pushed: tuples (str, str, int) that differ in the first, the
\* second or the third field only
HeapItems == {<<<<97>>, <<97>>, 0>>, <<<<97>>, <<97>>, 1>>,
              <<<<97>>, <<65>>, 1>>, <<<<97, 98>>, <<97>>, 0>>}

\* MinHeap()
InitHeap ==
    /\ EngineIdle
    /\ BTIdle
    /\ SSTIdle
    /\ BloomIdle
    /\ HeapIdle
    /\ LevIdle
    /\ ErrIdle
    /\ last_op = "init"

\* MinHeap.heappush(item)
HeapPush(item) ==
    /\ Len(heap_in) < MaxPushes
    /\ heap' = heappush(heap, item)
    /\ heap_in' = Append(heap_in, item)
    /\ heap_run' = 0
    /\ raised' = "none"
    /\ last_op' = "heappush"
    /\ UNCHANGED <<lsmvars, dbvars, sstown, bfown, levown, heap_out, db_type, raised_log>>

\* MinHeap.heappop(), on an empty heap too
HeapPop ==
    /\ heap' = heappop(heap).heap
    /\ raised' = heappop(heap).raised
    /\ heap_out' = IF heappop(heap).raised = "none"
                   THEN Append(heap_out, heappop(heap).item) ELSE heap_out
    /\ heap_run' = IF heappop(heap).raised = "none" THEN heap_run + 1 ELSE heap_run
    /\ raised_log' = raised_log \cup ({heappop(heap).raised} \ {"none"})
    /\ last_op' = "heappop"
    /\ UNCHANGED <<lsmvars, dbvars, sstown, bfown, levown, heap_in, db_type>>

NextHeap ==
    \/ \E item \in HeapItems : HeapPush(item)
    \/ HeapPop

SpecHeap == InitHeap /\ [][NextHeap]_vars

\* how often x occurs in the list s
Count(s, x) == Cardinality({i \in 1..Len(s) : s[i] = x})

\* the lists s and t hold the same items as often
SameItems(s, t) == \A x \in HeapItems : Count(s, x) = Count(t, x)

\* C18: min-heap order.  In any interleaving of heappush and heappop each
\* heappop returns a minimum of the items in the heap and removes that item
\* only; so pushing items and then popping them all gives them back in
\* non-decreasing order, duplicates kept, and leaves the heap empty.
C18_MinHeapOrder ==
    /\ [][(HeapPop /\ heap # <<>>) =>
            /\ Len(heap_out') = Len(heap_out) + 1
            /\ \A i \in 1..Len(heap) : ~ItemLess(heap[i], heap_out'[Len(heap_out')])
            /\ SameItems(Append(heap', heap_out'[Len(heap_out')]), heap)]_vars
    /\ [](heap_run = Len(heap_in) =>
            /\ heap = <<>>
            /\ SameItems(heap_out, heap_in)
            /\ \A i \in 1..(Len(heap_out) - 1) : ~ItemLess(heap_out[i + 1], heap_out[i]))

\* MaxPushes items pushed in an order that is not ascending, then all
\* popped: a duplicate pair and two different items came out
C18_Witness ==
    /\ heap_run = MaxPushes
    /\ Len(heap_in) = MaxPushes
    /\ heap = <<>>
    /\ heap_in # heap_out
    /\ \E i \in 1..(Len(heap_out) - 1) : heap_out[i] = heap_out[i + 1]
    /\ \E i \in 1..(Len(heap_out) - 1) : ItemLess(heap_out[i], heap_out[i + 1])

\* ------------------------------------------------------------------------
\* Levenshtein.distance on its own (levensthein.py)
\* ------------------------------------------------------------------------

\* the strings compared have at most MaxLevLen characters
MaxLevLen == 3

\* "a", "b"
Alphabet == {97, 98}

LevStrings == UNION {[1..m -> Alphabet] : m \in 0..MaxLevLen}

\* two strings, no distance computed yet
InitLev ==
    /\ EngineIdle
    /\ BTIdle
    /\ SSTIdle
    /\ BloomIdle
    /\ HeapIdle
    /\ ErrIdle
    /\ lev_a \in LevStrings
    /\ lev_b \in LevStrings
    /\ lev_d = 0
    /\ last_op = "init"

\* Levenshtein.distance(lev_a, lev_b)
LevDistance ==
    /\ last_op = "init"
    /\ lev_d' = distance(lev_a, lev_b)
    /\ last_op' = "distance"
    /\ UNCHANGED <<lsmvars, dbvars, sstown, bfown, heapown, errown, lev_a, lev_b>>

NextLev == LevDistance

SpecLev == InitLev /\ [][NextLev]_vars

\* the strings one unit-cost edit away from s: a character deleted,
\* substituted or inserted
Edits(s) ==
    {SubSeq(s, 1, i - 1) \o SubSeq(s, i + 1, Len(s)) : i \in 1..Len(s)}
    \cup {[s EXCEPT ![i] = c] : i \in 1..Len(s), c \in Alphabet}
    \cup {SubSeq(s, 1, i) \o <<c>> \o SubSeq(s, i + 1, Len(s)) : i \in 0..Len(s), c \in Alphabet}

\* the strings of LevStrings at most d edits away from s
RECURSIVE Within(_, _)
Within(s, d) ==
    IF d = 0 THEN {s}
    ELSE Within(s, d - 1)
         \cup (UNION {Edits(x) : x \in Within(s, d - 1)} \cap LevStrings)

\* the least number of edits that turn s into t
EditDistance(s, t) ==
    CHOOSE d \in 0..(2 * MaxLevLen) :
        /\ t \in Within(s, d)
        /\ d = 0 \/ t \notin Within(s, d - 1)

\* C19: Levenshtein.distance is symmetric, zero on equal strings, the
\* length of a against the empty string, and equal to the least number of
\* unit-cost insertions, deletions and substitutions that turn a into b.
C19_Levenshtein ==
    last_op = "distance" =>
        /\ lev_d = distance(lev_b, lev_a)
        /\ lev_a = lev_b => lev_d = 0
        /\ lev_b = <<>> => lev_d = Len(lev_a)
        /\ lev_a = <<>> => lev_d = Len(lev_b)
        /\ lev_d = EditDistance(lev_a, lev_b)

\* a shorter first argument (the call swaps them), strings of different
\* length that need a substitution as well: "ab" and "baa"
C19_Witness ==
    /\ last_op = "distance"
    /\ Len(lev_a) < Len(lev_b)
    /\ lev_a # <<>>
    /\ lev_d = 2
    /\ lev_d > Len(lev_b) - Len(lev_a)

\* ------------------------------------------------------------------------
\* Misuse of the DB wrapper and of the heap (db.py, heap.py).  The DB of
\* each engine type has a directory of its own, as in SpecDB.
\* ------------------------------------------------------------------------

\* at most MaxMisusePuts records are put into the DB of each engine type
MaxMisusePuts == 1

\* the engine names DB is constructed with: the two it knows, "rocksdb", ""
EngineNames == {"btree", "lsmtree", "rocksdb", ""}

\* DB.__init__ that falls back to the B-Tree engine for an unknown name
DBInit_fallback(engine_type) ==
    IF engine_type = "lsmtree" THEN [raised |-> "none", engine |-> "lsmtree"]
    ELSE [raised |-> "none", engine |-> "btree"]

\* DB.__init__: the exception raised ("none" when it returns) and the type
\* of the engine constructed
DBInit(engine_type) ==
    IF engine_type = "btree" THEN [raised |-> "none", engine |-> "btree"]
    ELSE IF engine_type = "lsmtree" THEN [raised |-> "none", engine |-> "lsmtree"]
    ELSE [raised |-> "ValueError", engine |-> "none"]

\* DB.fuzzy_get: the exception raised and the list returned;
\* hasattr(self.engine, 'fuzzy_get') holds for the LSMTree only
DBFuzzyGet(engine, e, search_key, max_distance) ==
    IF engine = "lsmtree"
    THEN [raised |-> "none", result |-> fuzzy_get(e, search_key, max_distance)]
    ELSE [raised |-> "NotImplementedError", result |-> <<>>]

\* no DB object yet, an empty MinHeap()
InitMisuse ==
    /\ EngineIdle
    /\ BTIdle
    /\ SSTIdle
    /\ BloomIdle
    /\ HeapIdle
    /\ LevIdle
    /\ ErrIdle
    /\ last_op = "init"

\* db = DB(engine_type, directory): on success the engine is constructed on
\* the files of its directory and db is the new object; when the
\* constructor raises, db stays what it was
DBNew(engine_type) ==
    /\ raised' = DBInit(engine_type).raised
    /\ raised_log' = raised_log \cup ({DBInit(engine_type).raised} \ {"none"})
    /\ db_type' = IF DBInit(engine_type).raised = "none"
                  THEN DBInit(engine_type).engine ELSE db_type
    /\ IF DBInit(engine_type).engine = "btree"
       THEN bt_root' = BTreeInit(MemtableT, bt_wal)
       ELSE UNCHANGED bt_root
    /\ IF DBInit(engine_type).engine = "lsmtree"
       THEN SetEngine(LSMTreeInit(dir, wal, DefaultThreshold))
       ELSE UNCHANGED <<memtable, memtable_threshold, segments, segment_counter, dir, wal>>
    /\ last_op' = "db_new"
    /\ UNCHANGED <<phase, flushed, bt_wal, latest, snap, btown, sstown, bfown, heapown, levown>>

\* db.put(k, v) on the DB object constructed last
MisusePut(k, v) ==
    /\ db_type # "none"
    /\ IF db_type = "btree"
       THEN /\ Len(bt_wal) < MaxMisusePuts
            /\ bt_wal' = WalWrite(bt_wal, "insert", k, v)
            /\ bt_root' = insert(bt_root, k, v, MemtableT)
            /\ UNCHANGED <<memtable, memtable_threshold, segments, segment_counter, dir, wal>>
       ELSE /\ Len(wal) < MaxMisusePuts
            /\ SetEngine(put(Engine, k, v))
            /\ UNCHANGED <<bt_root, bt_wal>>
    /\ raised' = "none"
    /\ last_op' = "db_put"
    /\ UNCHANGED <<phase, flushed, latest, snap, btown, sstown, bfown, heapown, levown,
                   db_type, raised_log>>

\* db.fuzzy_get(search_key, max_distance) on the DB object constructed last
MisuseFuzzyGet(search_key, max_distance) ==
    /\ db_type # "none"
    /\ raised' = DBFuzzyGet(db_type, Engine, search_key, max_distance).raised
    /\ raised_log' = raised_log
            \cup ({DBFuzzyGet(db_type, Engine, search_key, max_distance).raised} \ {"none"})
    /\ last_op' = "db_fuzzy_get"
    /\ UNCHANGED <<lsmvars, dbvars, sstown, bfown, heapown, levown, db_type>>

NextMisuse ==
    \/ \E engine_type \in EngineNames : DBNew(engine_type)
    \/ \E k \in Keys, v \in Values : MisusePut(k, v)
    \/ \E s \in SearchKeys, d \in 0..MaxDistance : MisuseFuzzyGet(s, d)
    \/ HeapPop

SpecMisuse == InitMisuse /\ [][NextMisuse]_vars

\* everything but the record of the exception raised
kept == <<lsmvars, dbvars, sstown, bfown, heapown, levown, db_type>>

\* C20: misuse is reported as a typed error and changes no state.  DB with
\* an engine name other than 'btree' and 'lsmtree' raises ValueError;
\* DB.fuzzy_get on a DB whose engine is the B-Tree raises
\* NotImplementedError; heappop on an empty heap raises IndexError and
\* leaves the heap empty.
C20_MisuseErrors ==
    [][/\ \A engine_type \in EngineNames \ {"btree", "lsmtree"} :
            DBNew(engine_type) => raised' = "ValueError" /\ UNCHANGED kept
       /\ (db_type = "btree" /\ \E s \in SearchKeys, d \in 0..MaxDistance : MisuseFuzzyGet(s, d))
            => raised' = "NotImplementedError" /\ UNCHANGED kept
       /\ (heap = <<>> /\ HeapPop)
            => raised' = "IndexError" /\ heap' = <<>> /\ UNCHANGED kept]_vars

\* all three errors were raised, the last by fuzzy_get on a B-Tree DB that
\* holds a record
C20_Witness ==
    /\ raised_log = {"ValueError", "NotImplementedError", "IndexError"}
    /\ raised = "NotImplementedError"
    /\ db_type = "btree"
    /\ bt_wal # <<>>
    /\ heap = <<>>

\* ------------------------------------------------------------------------
\* Versions of a key across the segment list
\* ------------------------------------------------------------------------

\* the values the records of key k carry in segment file name
RecordValues(d, name, k) ==
    {d.sst[name][i][2] : i \in {j \in 1..Len(d.sst[name]) : d.sst[name][j][1] = k}}

\* the positions in the segment list segs of the segments that hold key k
Holders(d, segs, k) == {s \in 1..Len(segs) : HoldsKey(d, segs[s].filename, k)}

\* the newest (highest list index) segment that holds k, when one does
NewestHolder(d, segs, k) ==
    CHOOSE s \in Holders(d, segs, k) : \A s2 \in Holders(d, segs, k) : s2 <= s

\* the value of k in the newest segment that holds it
NewestValue(d, segs, k) ==
    CHOOSE v \in RecordValues(d, segs[NewestHolder(d, segs, k)].filename, k) : TRUE

\* C21: compaction keeps the newest version.  When compact() merges two or
\* more segments, every key held by some of them is omitted from the
\* compacted segment if its value in the newest segment holding it is the
\* tombstone, and is otherwise stored once, with that value, whatever the
\* older segments hold.
C21_CompactionKeepsNewest ==
    [][(Compact /\ Len(segments) >= 2) =>
          \A k \in Keys :
              Holders(dir, segments, k) # {} =>
                  RecordValues(dir', segments'[1].filename, k) =
                      (IF NewestValue(dir, segments, k) = TOMBSTONE
                       THEN {} ELSE {NewestValue(dir, segments, k)})]_vars

\* ------------------------------------------------------------------------
\* The engine when the log is cleared after close(): WriteAheadLog.clear()
\* on the closed instance's memtable.wal, so that the next instance starts
\* with an empty memtable and reads from the segments
\* ------------------------------------------------------------------------

\* WriteAheadLog.clear: the file is removed and opened anew
WalClear(log) == <<>>

ClearWal ==
    /\ phase = "closed"
    /\ wal # <<>>
    /\ wal' = WalClear(wal)
    /\ last_op' = "wal_clear"
    /\ UNCHANGED <<memtable, memtable_threshold, segments, segment_counter, dir,
                   bt_root, bt_wal, libvars, phase, flushed, latest, snap>>

NextClear ==
    \/ Next
    \/ ClearWal

SpecClear == Init /\ [][NextClear]_vars

\* C22: newer segments shadow older ones.  On an open engine, for a key
\* that is not in the memtable, get returns absent when no segment holds
\* the key or when the newest segment holding it stores the tombstone, and
\* otherwise the value stored in that newest segment.
C22_NewerSegmentsShadow ==
    phase = "open" =>
        \A k \in Keys :
            search(memtable, k) = None =>
                get(Engine, k) =
                    (IF Holders(dir, segments, k) = {} THEN None
                     ELSE IF NewestValue(dir, segments, k) = TOMBSTONE THEN None
                     ELSE NewestValue(dir, segments, k))

\* ------------------------------------------------------------------------
\* The engine when compact() may raise part-way (an I/O error of open,
\* write, shutil.move or os.remove): the files are left as the steps made
\* so far left them and the LSMTree object keeps its fields, the
\* assignments of compact() being its last two statements
\* ------------------------------------------------------------------------

CompactFails(i) ==
    /\ phase = "open"
    /\ segment_counter < MaxCounter
    /\ Len(segments) >= 2
    /\ i \in 1..Len(CompactSteps(Engine))
    /\ dir' = CompactSteps(Engine)[i]
    /\ phase' = "compact_failed"
    /\ last_op' = "compact_failed"
    /\ flushed' = FALSE
    /\ snap' = NoSnap
    /\ UNCHANGED <<memtable, memtable_threshold, segments, segment_counter, wal,
                   bt_root, bt_wal, libvars, latest>>

NextFail ==
    \/ Next
    \/ \E i \in 1..MaxCrashStep : CompactFails(i)

SpecFail == Init /\ [][NextFail]_vars

\* the .sst files of the segments of the list segs are in directory d2 as
\* they are in d
OldFilesKept(d, d2, segs) ==
    \A s \in 1..Len(segs) :
        /\ segs[s].filename \in DOMAIN d2.sst
        /\ d2.sst[segs[s].filename] = d.sst[segs[s].filename]

\* C23: old segments are removed only after the replacement exists.  At
\* whatever step compact() stops, an old segment's .sst file is missing
\* only if the merged file already has its final name (the segment counter
\* of the call); and if the merged file has not got that name yet, every
\* old .sst file is on disk unchanged and the segment list is unchanged.
C23_RemoveAfterRename ==
    [][last_op' = "compact_failed" =>
          /\ (\E s \in 1..Len(segments) : segments[s].filename \notin DOMAIN dir'.sst)
                 => segment_counter \in DOMAIN dir'.sst
          /\ segment_counter \notin DOMAIN dir'.sst
                 => OldFilesKept(dir, dir', segments) /\ segments' = segments]_vars

\* C23 witness: compact() stopped after it renamed the merged file and
\* removed the .sst file of the oldest segment, the newest segment's file
\* being still there.
C23_Witness ==
    /\ last_op = "compact_failed"
    /\ Len(segments) >= 2
    /\ segment_counter \in DOMAIN dir.sst
    /\ segments[1].filename \notin DOMAIN dir.sst
    /\ segments[Len(segments)].filename \in DOMAIN dir.sst

\* no record of the segments of the list segs carries the tombstone
NoTombstone(d, segs) ==
    \A s \in 1..Len(segs) :
        \A i \in 1..Len(d.sst[segs[s].filename]) :
            d.sst[segs[s].filename][i][2] # TOMBSTONE

\* C24 as stated: after any call of compact() returns, no segment of the
\* segment list holds a record whose value is the tombstone.
C24_CompactionDropsTombstones ==
    [][Compact => NoTombstone(dir', segments')]_vars

\* C24 amended: after compact() returns from a call made with two or more
\* segments in the list, no segment of the segment list holds a record
\* whose value is the tombstone.
C24_MergeDropsTombstones ==
    [][(Compact /\ Len(segments) >= 2) => NoTombstone(dir', segments')]_vars

\* C24 witness: every write was flushed (threshold 1), compact() merged the
\* segments, among them one holding the tombstone of a key deleted last,
\* and the merged segment has no record of that key.
C24_Witness ==
    /\ last_op = "compact"
    /\ memtable_threshold = 1
    /\ Len(segments) = 1
    /\ segments[1].filename >= 2
    /\ \E k \in Keys : /\ latest[k] = TOMBSTONE
                       /\ ~HoldsKey(dir, segments[1].filename, k)
    /\ NoTombstone(dir, segments)

\* the keys of a list of (key, value) pairs
KeysOf(pairs) == {pairs[i][1] : i \in 1..Len(pairs)}

\* the record count of the memtable root after the insert of (k, v)
CountAfter(root, k, v) == Len(items(insert(root, k, v, MemtableT)))

\* a call put(k, v), or delete(k) when v is the tombstone, was made
Wrote(k, v) == Put(k, v) \/ (v = TOMBSTONE /\ Delete(k))

Ascending(pairs) ==
    \A i \in 1..(Len(pairs) - 1) : StrLess(pairs[i][1], pairs[i + 1][1])

\* this step appended one segment, named by the counter before the step,
\* whose read_iter yields exactly the list its of (key, value) pairs
FlushedExactly(its) ==
    /\ segments' = Append(segments, segments'[Len(segments')])
    /\ segments'[Len(segments')].filename = segment_counter
    /\ segment_counter' = segment_counter + 1
    /\ read_iter(dir', segment_counter) = its
    /\ Ascending(read_iter(dir', segment_counter))

\* C26: flush writes exactly the memtable.  A flush of a non-empty memtable,
\* by put or delete once the threshold is reached or by close(), appends
\* one segment at the end of the list and advances the counter by one, and
\* the new segment's read_iter yields exactly the memtable's items() at the
\* time of the flush, in ascending key order, tombstones included.
C26_FlushWritesMemtable ==
    [][/\ \A k \in Keys, v \in Values \cup {TOMBSTONE} :
              (Wrote(k, v) /\ CountAfter(memtable, k, v) >= memtable_threshold)
                  => FlushedExactly(items(insert(memtable, k, v, MemtableT)))
       /\ (Close /\ items(memtable) # <<>>) => FlushedExactly(items(memtable))]_vars

\* C26 witness: a delete flushed a memtable of two records, one live and
\* one the tombstone, and the new segment holds both.
C26_Witness ==
    /\ last_op = "delete"
    /\ flushed
    /\ Len(segments) = 1
    /\ Len(read_iter(dir, segments[1].filename)) = 2
    /\ \E i, j \in 1..2 : /\ read_iter(dir, segments[1].filename)[i][2] = TOMBSTONE
                          /\ read_iter(dir, segments[1].filename)[j][2] \in Values

\* C27: flush of an empty memtable is a no-op.  When the memtable holds no
\* record, close(), which is _flush_memtable, writes no file, leaves the
\* segment list and the segment counter as they were, and leaves the
\* memtable and its log as they were.
C27_EmptyFlushNoOp ==
    [][(Close /\ items(memtable) = <<>>) =>
          /\ dir' = dir
          /\ segments' = segments
          /\ segment_counter' = segment_counter
          /\ memtable' = memtable
          /\ wal' = wal]_vars

\* C27 witness: close() was called on an engine that never received a
\* write; no file and no segment exists.
C27_Witness ==
    /\ last_op = "close"
    /\ phase = "closed"
    /\ items(memtable) = <<>>
    /\ dir = EmptyDir
    /\ segments = <<>>
    /\ segment_counter = 0

\* the basenames of the segments of the list segs
SegmentNames(segs) == {segs[s].filename : s \in 1..Len(segs)}

\* the names of the .sst files that d2 holds and d does not, or holds with
\* other content: the files written between d and d2
Written(d, d2) ==
    {n \in DOMAIN d2.sst : n \notin DOMAIN d.sst \/ d2.sst[n] # d.sst[n]}

\* C28: segment naming.  At every operation boundary of an engine that was
\* constructed, a new instance on the same directory included, the
\* basenames of the segments are strictly increasing in list order and
\* segment_counter is greater than all of them (0 when there are none); no
\* operation writes an .sst file under the basename of a segment of the
\* list; and no operation other than compact() changes or removes the .sst
\* file of a segment of the list.
C28_SegmentNaming ==
    /\ [](phase # "failed" =>
             /\ \A i, j \in 1..Len(segments) :
                    i < j => segments[i].filename < segments[j].filename
             /\ \A s \in 1..Len(segments) : segments[s].filename < segment_counter
             /\ segments = <<>> => segment_counter = 0)
    /\ [][/\ Written(dir, dir') \cap SegmentNames(segments) = {}
          /\ last_op' \notin {"compact", "reopen_crash"} =>
                 \A n \in SegmentNames(segments) :
                     n \in DOMAIN dir'.sst /\ dir'.sst[n] = dir.sst[n]]_vars

\* ------------------------------------------------------------------------
\* The engine late in its life: an instance constructed on a directory
\* whose only segment is 99999.sst, as compact() leaves it once the counter
\* has reached 99999, with the log holding the record of that segment
\* ------------------------------------------------------------------------

\* the last name of PadWidth digits, 99999
HighName == 99999

\* the files compact() leaves for a merged segment of one record
HighDir(k, v) ==
    [sst   |-> Store(<<>>, HighName, <<<<k, v>>>>),
     index |-> Store(<<>>, HighName, StrideIndex(<<<<k, v>>>>, 0, 0)),
     bf    |-> Store(<<>>, HighName, CompactBloom(<<<<k, v>>>>))]

InitWide ==
    \E threshold \in 1..MaxThreshold, k \in Keys, v \in Values :
        /\ LET e == LSMTreeInit(HighDir(k, v), WalWrite(<<>>, "insert", k, v), threshold)
           IN /\ memtable = e.memtable
              /\ memtable_threshold = e.memtable_threshold
              /\ segments = e.segments
              /\ segment_counter = e.segment_counter
              /\ dir = e.dir
              /\ wal = e.wal
        /\ latest = [x \in Keys |-> IF x = k THEN v ELSE None]
        /\ bt_root = BTreeInit(MemtableT, <<>>)
        /\ bt_wal = <<>>
        /\ bt_t = MemtableT
        /\ bt_ops = 0
        /\ SSTIdle
        /\ BloomIdle
        /\ HeapIdle
        /\ LevIdle
        /\ ErrIdle
        /\ phase = "open"
        /\ last_op = "init"
        /\ flushed = FALSE
        /\ snap = NoSnap

\* put(k, v), which delete(k) calls with the tombstone; the log, which
\* begins with one record, may grow to MaxOps + 1
WideWrite(k, v) ==
    /\ phase = "open"
    /\ Len(wal) <= MaxOps
    /\ SetEngine(put(Engine, k, v))
    /\ latest' = [latest EXCEPT ![k] = v]
    /\ last_op' = IF v = TOMBSTONE THEN "delete" ELSE "put"
    /\ flushed' = PutFlushes(Engine, k, v)
    /\ snap' = NoSnap
    /\ UNCHANGED <<libvars, bt_root, bt_wal, phase>>

NextWide ==
    \/ \E k \in Keys, v \in Values \cup {TOMBSTONE} : WideWrite(k, v)
    \/ Abandon

SpecWide == InitWide /\ [][NextWide]_vars

\* C29: segment files.  On an engine that was constructed, every segment
\* of the segment list, written by a flush or by compact(), stores its
\* records in strictly ascending key order, no key twice, and its bloom
\* filter, when it has one, reports positive for every key stored in it.
C29_SegmentFiles ==
    phase \in {"open", "closed"} =>
        \A s \in 1..Len(segments) :
            /\ Ascending(read_iter(dir, segments[s].filename))
            /\ segments[s].bloom_filter # NoBloomFilter
            /\ \A i \in 1..Len(read_iter(dir, segments[s].filename)) :
                   contains(segments[s].bloom_filter,
                            read_iter(dir, segments[s].filename)[i][1])

\* ------------------------------------------------------------------------
\* Shape of the B-Tree
\* ------------------------------------------------------------------------

\* the depths at which the leaves below node x lie
RECURSIVE LeafDepths(_)
LeafDepths(x) ==
    IF x.leaf THEN {0}
    ELSE UNION {{d + 1 : d \in LeafDepths(x.child[i])} : i \in 1..Len(x.child)}

\* node x and the nodes below it obey the key-count and shape rules of a
\* B-Tree of minimum degree t; isroot tells whether x is the root
RECURSIVE NodesOK(_, _, _)
NodesOK(x, t, isroot) ==
    /\ Len(x.keys) <= 2 * t - 1
    /\ isroot \/ Len(x.keys) >= t - 1
    /\ \A i \in 1..(Len(x.keys) - 1) : StrLess(x.keys[i], x.keys[i + 1])
    /\ Len(x.values) = Len(x.keys)
    /\ IF x.leaf THEN x.child = <<>>
       ELSE /\ Len(x.child) = Len(x.keys) + 1
            /\ \A i \in 1..Len(x.child) : NodesOK(x.child[i], t, FALSE)

\* ------------------------------------------------------------------------
\* A standalone B-Tree grown deep: the log found at construction inserts
\* MaxDeepKeys keys in one of four orders, and further inserts follow
\* ------------------------------------------------------------------------

\* the log found at construction holds MaxDeepKeys records
MaxDeepKeys == 10

\* the keys "`", "a" .. "l"
DeepKeys == {<<c>> : c \in 96..108}

\* the orders in which the log inserts its keys: ascending from "a",
\* descending, and two interleaved ones
DeepOrders ==
    {[i \in 1..MaxDeepKeys |-> <<96 + i>>],
     [i \in 1..MaxDeepKeys |-> <<97 + MaxDeepKeys - i>>],
     [i \in 1..MaxDeepKeys |-> <<96 + ((i * 3) % (MaxDeepKeys + 1))>>],
     [i \in 1..MaxDeepKeys |-> <<96 + ((i * 7) % (MaxDeepKeys + 1))>>]}

\* the log that inserts the keys of the sequence order, in that order
RECURSIVE LogOfOrder(_)
LogOfOrder(order) ==
    IF order = <<>> THEN <<>>
    ELSE WalWrite(LogOfOrder(SubSeq(order, 1, Len(order) - 1)), "insert",
                  order[Len(order)], BTInitValue)

\* BTree(t, wal_path) on a WAL path that holds no record or one of the logs
InitDeep ==
    /\ EngineIdle
    /\ \E t \in Degrees, log \in {<<>>} \cup {LogOfOrder(o) : o \in DeepOrders} :
        /\ bt_t = t
        /\ bt_wal = log
        /\ bt_root = BTreeInit(t, log)
        /\ latest = [k \in DeepKeys |-> LatestOf(log, k)]
    /\ bt_ops = 0
    /\ last_op = "init"
    /\ snap = <<>>
    /\ SSTIdle
    /\ BloomIdle
    /\ HeapIdle
    /\ LevIdle
    /\ ErrIdle

NextDeep ==
    \/ \E k \in DeepKeys, v \in BTValues : BTInsert(k, v)
    \/ BTReopen

SpecDeep == InitDeep /\ [][NextDeep]_vars

\* C30: B-Tree structure.  After any inserts into a BTree of minimum degree
\* t >= 2, every node holds at most 2t-1 keys and every node but the root
\* at least t-1, the keys of a node are strictly ascending with as many
\* values as keys, an internal node has one more child than keys, a leaf
\* has no child, and all leaves are at the same depth.
C30_BTreeStructure ==
    /\ bt_t >= 2
    /\ NodesOK(bt_root, bt_t, TRUE)
    /\ Cardinality(LeafDepths(bt_root)) = 1

\* C30 witness: a tree of minimum degree 2 that inserts have grown to three
\* levels (the root was split while it had children), in which a node
\* below the root holds the minimum of one key and another holds more.
C30_Witness ==
    /\ bt_t = 2
    /\ last_op = "bt_insert"
    /\ LeafDepths(bt_root) = {2}
    /\ \E i, j \in 1..Len(bt_root.child) :
           /\ Len(bt_root.child[i].keys) = 1
           /\ \E c \in 1..Len(bt_root.child[j].child) :
                  Len(bt_root.child[j].child[c].keys) > 1

\* ------------------------------------------------------------------------
\* A standalone B-Tree whose keys are written again: the log found at
\* construction fills the root leaf (2t-1 keys) or is one of the logs of
\* the deep tree, and inserts and deletes of "a" .. "g" follow
\* ------------------------------------------------------------------------

\* the orders in which a log inserts the 2t-1 keys that fill the root
FullOrders(t) ==
    {[i \in 1..(2 * t - 1) |-> <<96 + i>>],
     [i \in 1..(2 * t - 1) |-> <<96 + 2 * t - i>>]}

InitOver ==
    /\ EngineIdle
    /\ \E t \in Degrees :
         \E log \in {LogOfOrder(o) : o \in FullOrders(t) \cup DeepOrders} :
            /\ bt_t = t
            /\ bt_wal = log
            /\ bt_root = BTreeInit(t, log)
            /\ latest = [k \in DeepKeys |-> LatestOf(log, k)]
    /\ bt_ops = 0
    /\ last_op = "init"
    /\ snap = <<>>
    /\ SSTIdle
    /\ BloomIdle
    /\ HeapIdle
    /\ LevIdle
    /\ ErrIdle

SpecOver == InitOver /\ [][NextBT]_vars

\* the nodes of the tree below x with their key lists, without the values
RECURSIVE Structure(_)
Structure(x) ==
    [leaf  |-> x.leaf,
     keys  |-> x.keys,
     child |-> [i \in 1..Len(x.child) |-> Structure(x.child[i])]]

\* C31: overwrite makes no structural change.  An insert or delete of a
\* key the tree holds, the tombstone as stored or as new value included,
\* leaves the nodes and every node's key list as they were, a full root
\* included, leaves the number of items as it was, sets the value of that
\* key and changes the value of no other key.
C31_OverwriteInPlace ==
    [][(bt_ops' = bt_ops + 1 /\ search(bt_root, bt_wal'[Len(bt_wal')].key) # None) =>
          /\ Structure(bt_root') = Structure(bt_root)
          /\ Len(items(bt_root')) = Len(items(bt_root))
          /\ search(bt_root', bt_wal'[Len(bt_wal')].key) = bt_wal'[Len(bt_wal')].value
          /\ \A k \in DeepKeys :
                 k # bt_wal'[Len(bt_wal')].key => search(bt_root', k) = search(bt_root, k)]_vars

\* C31 witness: in a tree whose root is full, a key was deleted and then
\* inserted again: the insert found the tombstone stored and replaced it.
C31_Witness ==
    /\ last_op = "bt_insert"
    /\ Len(bt_root.keys) = 2 * bt_t - 1
    /\ Len(bt_wal) >= 2
    /\ bt_wal[Len(bt_wal)].key = bt_wal[Len(bt_wal) - 1].key
    /\ bt_wal[Len(bt_wal) - 1].value = TOMBSTONE
    /\ search(bt_root, bt_wal[Len(bt_wal)].key) = bt_wal[Len(bt_wal)].value
    /\ bt_wal[Len(bt_wal)].value # TOMBSTONE

\* the record a logged insert of k with value v leaves in the log
Record(k, v) == [op |-> "insert", key |-> k, value |-> v]

\* the tree changes in an insert only once the log holds the call's record
LoggedFirst(log, root, k, v, t) ==
    LET s == InsertSteps(log, root, k, v, t, TRUE) IN
        \A i \in 1..Len(s) : s[i].root # root => s[i].log = log \o <<Record(k, v)>>

\* C32: WAL content of a standalone B-Tree.  Every logged insert (put,
\* delete, overwrite) adds exactly its own record at the end of the WAL,
\* before the tree changes, and a reopening of the tree on the same path
\* leaves the WAL as it is: after n calls the WAL holds the n records in
\* submission order after what it held before, and it is never shortened.
C32_WalContent ==
    [][/\ \A k \in BTKeys, v \in BTValues :
              BTInsert(k, v) =>
                  /\ bt_wal' = bt_wal \o <<Record(k, v)>>
                  /\ LoggedFirst(bt_wal, bt_root, k, v, bt_t)
                  /\ LastOf(InsertSteps(bt_wal, bt_root, k, v, bt_t, TRUE))
                         = [log |-> bt_wal', root |-> bt_root']
       /\ \A k \in BTKeys :
              BTDelete(k) =>
                  /\ bt_wal' = bt_wal \o <<Record(k, TOMBSTONE)>>
                  /\ LoggedFirst(bt_wal, bt_root, k, TOMBSTONE, bt_t)
                  /\ LastOf(InsertSteps(bt_wal, bt_root, k, TOMBSTONE, bt_t, TRUE))
                         = [log |-> bt_wal', root |-> bt_root']
       /\ BTReopen => bt_wal' = bt_wal
       /\ Len(bt_wal') - bt_ops' = Len(bt_wal) - bt_ops]_vars

\* a tree reopened after two logged calls, an overwrite of a key of the log
\* and then a delete, whose replay gives the tree the calls had built
C32_Witness ==
    /\ last_op = "bt_reopen"
    /\ bt_ops = 2
    /\ snap # <<>>
    /\ bt_wal[Len(bt_wal)] = Record(bt_wal[Len(bt_wal)].key, TOMBSTONE)
    /\ bt_wal[Len(bt_wal) - 1].value \in BTValues
    /\ bt_wal[Len(bt_wal) - 1].key \in {bt_wal[i].key : i \in 1..(Len(bt_wal) - 2)}
    /\ items(BTreeInit(bt_t, bt_wal)) = items(bt_root)

\* the basenames of all files of the directory d other than btree.wal
FileNames(d) == (DOMAIN d.sst) \cup (DOMAIN d.index) \cup (DOMAIN d.bf)

\* C33: directory contents after compaction.  After compact() returns, the
\* directory holds, besides btree.wal, only .sst, .index and .bf files of
\* the segments of the segment list: no file of the temporary name and no
\* file of a removed segment remains.
C33_DirectoryAfterCompact ==
    [][Compact => FileNames(dir') \subseteq SegmentNames(segments')]_vars

\* C34: flush and compaction are invisible to readers.  For every key, get
\* returns after a flush (in close() or as put and delete would call it) and
\* after compact() what it returned immediately before.
C34_InvisibleToReaders ==
    /\ [](phase = "open" => GetAll(_flush_memtable(Engine)) = GetAll(Engine))
    /\ [][(Compact \/ Close) => GetAll(Engine') = GetAll(Engine)]_vars

\* the heap x holds at most one tuple per segment index, so no two of its
\* tuples agree on key, value and segment index
OnePerSegment(x) ==
    \A i, j \in 1..Len(x) :
        i # j => /\ x[i][3] # x[j][3]
                 /\ <<x[i][1], x[i][2], x[i][3]>> # <<x[j][1], x[j][2], x[j][3]>>

\* the tuple x is the record of its segment that follows the records of that
\* segment among the popped tuples
NextUnread(segment_iters, popped, x) ==
    /\ x[3] + 1 \in 1..Len(segment_iters)
    /\ x[4] = 1 + Cardinality({p \in 1..Len(popped) : popped[p][3] = x[3]})
    /\ x[4] <= Len(segment_iters[x[3] + 1])
    /\ <<x[1], x[2]>> = segment_iters[x[3] + 1][x[4]]

\* the merge of segment_iters keeps one tuple per segment in the heap and
\* pops every record of every segment exactly once
Frontier(segment_iters) ==
    LET heaps == MergeHeaps(segment_iters, MergeStart(segment_iters))
        pops == MergePops(segment_iters, MergeStart(segment_iters))
    IN /\ Len(heaps) = Len(pops) + 1
       /\ \A h \in 1..Len(heaps) :
              /\ OnePerSegment(heaps[h])
              /\ \A i \in 1..Len(heaps[h]) :
                     NextUnread(segment_iters, SubSeq(pops, 1, h - 1), heaps[h][i])
       /\ \A n \in 1..Len(pops) :
              /\ pops[n][3] + 1 \in 1..Len(segment_iters)
              /\ pops[n][4] \in 1..Len(segment_iters[pops[n][3] + 1])
              /\ <<pops[n][1], pops[n][2]>> = segment_iters[pops[n][3] + 1][pops[n][4]]
       /\ \A s \in 1..Len(segment_iters) :
              \A p \in 1..Len(segment_iters[s]) :
                  Cardinality({n \in 1..Len(pops) :
                                   pops[n][3] = s - 1 /\ pops[n][4] = p}) = 1

\* C35: merge frontier.  In the k-way merge compact() runs on the segments
\* of an open engine, the heap holds at every pass at most one tuple per
\* segment index, the next unread record of that segment, so that no two
\* tuples agree on key, value and segment index and no comparison reaches
\* the iterator field; and every record of every segment is popped exactly
\* once.
C35_MergeFrontier ==
    (phase = "open" /\ Len(segments) >= 2) => Frontier(SegmentIters(Engine))

\* C35 witness: an engine on which compact() merges three segments or more,
\* one of them of two records, whose heap holds at some pass two tuples of
\* the same key and value, ordered by their segment index
C35_Witness ==
    /\ phase = "open"
    /\ Len(segments) >= 3
    /\ compact(Engine) # Engine
    /\ \E s \in 1..Len(segments) : Len(SegmentIters(Engine)[s]) >= 2
    /\ \E h \in 1..Len(MergeHeaps(SegmentIters(Engine), MergeStart(SegmentIters(Engine)))) :
           LET x == MergeHeaps(SegmentIters(Engine), MergeStart(SegmentIters(Engine)))[h]
           IN \E i, j \in 1..Len(x) : i # j /\ x[i][1] = x[j][1] /\ x[i][2] = x[j][2]
    /\ Frontier(SegmentIters(Engine))
====
